---- MODULE Spec2Model ----
(***************************************************************************)
(* Verina chat backend: the per-session ReAct engine (ChatModeAgent,       *)
(* AgentModeAgent), the AgentRouter in front of it, the ChatService cancel *)
(* flags, the file tools' path checks and the web_search source pipeline.  *)
(*                                                                         *)
(* One session is modelled.  Each element of Procs is one HTTP request     *)
(* (one turn) running process_message_stream; asyncio interleaves the      *)
(* requests only where the code awaits or yields, so every action below is *)
(* the code between two such suspension points.                            *)
(***************************************************************************)
EXTENDS Integers, Sequences, FiniteSets, TLC

VARIABLES
    messages,       \* MessageManager.messages of the session (the Message Log)
    has_mm,         \* AgentRouter.message_manager is not None
    last_mode,      \* AgentRouter.last_mode
    stage,          \* AgentModeAgent.stage
    cancel_flags,   \* ChatService.cancel_flags.get(session_id)
    pc,             \* per request: where its generator is suspended
    mode,           \* per request: the requested mode
    tno,            \* per request: ordinal of the turn it runs
    max_iterations, \* BaseAgent.max_iterations of the session's agents
    iteration,      \* per request: local `iteration`
    step_counter,   \* per request: local `step_counter`
    thinking_steps, \* per request: len(thinking_steps)
    tool_calls,     \* per request: tool_calls of the last model response
    tc_idx,         \* per request: index of the tool call being processed
    ready,          \* per request: ready_for_final_answer
    was_research,   \* per request: the agent was in research stage during the turn
    events,         \* per request: the events yielded to the caller so far
    cancel_req,     \* per request: a stop request arrived while a call was in flight
    turns_started,  \* number of turns accepted so far
    cancels_made,   \* number of stop requests made so far
    last_prompt_tokens, \* per request: local `last_prompt_tokens`, as a class
    workspaces,     \* the modes whose workspace directory exists on disk
    has_e2b_key,    \* Config.has_e2b_key()
    agent_tools,    \* AgentModeAgent.tools, the built-in names
    chat_tools,     \* ChatModeAgent.tools, the built-in names
    sandbox,        \* the modes whose SandboxTool holds a sandbox session
    current_sources,\* BaseAgent.current_sources of the agent serving the turn
    searches,       \* web_search calls made in the response being built
    source_text,    \* the result lines handed to the model by the last web_search
    rendered,       \* every labelled result line handed to the model in the turn
    response,       \* the ChatResponse of the turn: whether built, and its sources
    source_mode,    \* mode of the agent building the response
    persisted,      \* the messages held by messages.json of the session
    prev_mode,      \* mode of the session's previous turn, "none" before the first
    cleared,        \* clear-session reported success since the last turn was accepted
    restarts,       \* number of server restarts so far
    clears,         \* number of clear-session calls so far
    compact_in,     \* compact_context: the log it was called on
    compact_out,    \* compact_context: its argument, outcome and the log it left
    fs_files,       \* the files on disk, as absolute paths
    fs_dirs,        \* the directories on disk, as absolute paths
    fs_ops,         \* number of tool calls made on the file system
    fs_result,      \* tool, outcome and paths read or written of the last call
    steps,          \* the ThinkingSteps built for the tool calls of one response
    mcp_sessions,   \* MCPClient.sessions: the servers that have a session
    tools_cache,    \* MCPClient.tools_cache: server -> names of its tools
    research_mcp,   \* the mcp_<server>_<tool> entries of the tools_research dict
    mcp_outcome,    \* server -> how the connection of the last stage switch went
    mcp_switches,   \* stage switches of this agent so far
    mcp_agents,     \* agents built so far
    exit_stack,     \* MCPClient.exit_stack: server -> child processes it holds open
    llm_attempts,   \* what the HTTP request did in each attempt of the call in flight
    llm_calls,      \* the finished provider calls: their attempts and how they ended
    compact_results, \* the envelopes returned to the forced compactions of the session
    chat_history,   \* chat_history.json: the responses appended by final answers
    final_answers,  \* the final answers the model has given: turn, and whether with HTML
    cache_files,    \* the file names in <workspace>/cache
    cache_writes,   \* the cache writes of web_search: path, and whether it existed
    turn_path,      \* the agent and stage that answer the turn: chat, hil or research
    turn_steps,     \* thinking_steps of the turn: the ThinkingStep objects
    turn_sources,   \* self.current_sources of the agent that answers
    chat_response,  \* the ChatResponse of the last complete event
    response_entry, \* the entry appended to chat_history.json for it
    message_manager, \* SearchAgent.message_manager: the search whose manager it is
    mm_messages,    \* search -> the messages of the MessageManager built for it
    search_pc,      \* search -> where its search_stream stands
    search_deep,    \* search -> its deep_thinking argument
    llm_sent,       \* the message lists passed to the model, and for which search
    first_batch_candidates, \* deep mode: the candidates of the first deep_search
    second_batch,   \* deep mode: the candidates of the supplemental deep_search
    delivered,      \* the candidates yielded in sources and sources_update, in order
    deep_pc         \* where the deep-thinking search stands

vars == <<messages, has_mm, last_mode, stage, cancel_flags, pc, mode, tno,
          max_iterations, iteration, step_counter, thinking_steps, tool_calls, tc_idx, ready,
          was_research, events, cancel_req, turns_started, cancels_made,
          last_prompt_tokens, workspaces, has_e2b_key, agent_tools, chat_tools, sandbox,
          current_sources, searches, source_text, rendered, response, source_mode,
          persisted, prev_mode, cleared, restarts, clears, compact_in, compact_out,
          fs_files, fs_dirs, fs_ops, fs_result, steps,
          mcp_sessions, tools_cache, research_mcp, mcp_outcome, mcp_switches, mcp_agents,
          exit_stack,
          llm_attempts, llm_calls, compact_results,
          chat_history, final_answers, cache_files, cache_writes,
          turn_path, turn_steps, turn_sources, chat_response, response_entry,
          message_manager, mm_messages, search_pc, search_deep, llm_sent,
          first_batch_candidates, second_batch, delivered, deep_pc>>

engineVars == <<messages, has_mm, last_mode, stage, cancel_flags, pc, mode, tno,
                max_iterations, iteration, step_counter, thinking_steps, tool_calls, tc_idx,
                ready, was_research, events, cancel_req, turns_started, cancels_made,
                last_prompt_tokens, workspaces, has_e2b_key, agent_tools, chat_tools, sandbox,
                persisted, prev_mode, cleared, restarts, clears>>

sourceVars == <<current_sources, searches, source_text, rendered, response, source_mode>>

pathVars == <<fs_files, fs_dirs, fs_ops, fs_result>>

sessionVars == <<persisted, prev_mode, cleared, restarts, clears>>

compactVars == <<compact_in, compact_out>>

stepVars == <<steps>>

\* the variables of the tool-level specifications that came after the engine's
mcpVars == <<mcp_sessions, tools_cache, research_mcp, mcp_outcome, mcp_switches, mcp_agents,
             exit_stack>>

retryVars == <<llm_attempts, llm_calls>>

forcedVars == <<compact_results>>

historyVars == <<chat_history, final_answers>>

cacheVars == <<cache_files, cache_writes>>

envelopeVars == <<turn_path, turn_steps, turn_sources, chat_response, response_entry>>

\* the variables of the models that follow the engine's
searchVars == <<message_manager, mm_messages, search_pc, search_deep, llm_sent>>

dedupeVars == <<first_batch_candidates, second_batch, delivered, deep_pc>>

tailVars == <<envelopeVars, searchVars, dedupeVars>>

extraVars == <<stepVars, mcpVars, retryVars, forcedVars, historyVars, cacheVars, tailVars>>

otherVars == <<sourceVars, pathVars, compactVars, extraVars>>

(***************************************************************************)
(* Bounds                                                                  *)
(***************************************************************************)
\* ChatConfig.MAX_ITERATIONS is 200; the loop bound is a constructor argument
MAX_ITERATIONS == 3
\* longest result list of the search vendor
MaxResults == 3
\* web_search calls in one response
MaxSearches == 2
\* longest relative path argument, in names
MaxPathLen == 3
\* tool calls made on the file system
MaxFsOps == 2
\* turns submitted to the session in the restart and clear-session specification
MaxSessionTurns == 2
\* longest log handed to compact_context, after its system message and first query
MaxLogLen == 5
\* largest keep_recent_user_messages argument
MaxKeep == 3
\* server restarts
MaxRestarts == 1
\* clear-session calls
MaxClears == 1
\* the loop bound in the overlapping-requests specification
ConcIterations == 2
\* tool calls in one model response
MaxCalls == 2
\* turns submitted to the session
MaxTurns == 2
\* stop requests made
MaxCancels == 1

\* concurrent HTTP requests for the session
Procs == {"r1", "r2"}

Modes == {"chat", "agent"}

(***************************************************************************)
(* Message Log records (MessageManager.add_*_message)                      *)
(***************************************************************************)
\* a message: its role, the class of its content, and the tool-call ids it
\* carries (the proposals of an assistant message, the tool_call_id of a tool
\* message)
Msg(role, tag, ids) == [role |-> role, tag |-> tag, ids |-> ids]

add_system_message(msgs, m) == Append(msgs, Msg("system", m, <<>>))

add_user_message(msgs, tag) == Append(msgs, Msg("user", tag, <<>>))

add_assistant_message(msgs, tag, ids) == Append(msgs, Msg("assistant", tag, ids))

add_tool_result(msgs, id) == Append(msgs, Msg("tool", "result", <<id>>))

\* the id of the k-th proposal of the model response of iteration `it` of turn
\* `t`: the vendor mints a fresh id for every proposal
CallId(t, it, k) == <<t, it, k>>

CallIds(t, it, calls) == [k \in 1..Len(calls) |-> CallId(t, it, k)]

(***************************************************************************)
(* What the model can return                                               *)
(***************************************************************************)
\* args: "obj" decodes to a JSON object, "nonobj" decodes to a JSON value
\* that is not an object (a list, a number, null)
ToolCall(name, args) == [name |-> name, args |-> args]

NormalCalls == { ToolCall("web_search", "obj"), ToolCall("web_search", "nonobj") }

ControlCalls == { ToolCall("start_research", "obj"), ToolCall("stop_answer", "obj") }

\* the proposal lists of one response: up to MaxCalls normal proposals, or a
\* control proposal alone, before or after a normal proposal
CallLists ==
    UNION { [1..n -> NormalCalls] : n \in 1..MaxCalls }
    \cup { <<c>> : c \in ControlCalls }
    \cup { <<c, ToolCall("web_search", "obj")>> : c \in ControlCalls }
    \cup { <<ToolCall("web_search", "obj"), c>> : c \in ControlCalls }

\* usage.prompt_tokens of a response, as a class: at most
\* ChatConfig.AUTO_COMPACT_THRESHOLD ("under") or more than it ("over")
Usages == {"under", "over"}

\* response of llm_provider.chat inside the loop
Responses ==
    { [kind |-> "raise", calls |-> <<>>, usage |-> "under"] }
    \cup { [kind |-> "text", calls |-> <<>>, usage |-> u] : u \in Usages }
    \cup { [kind |-> "calls", calls |-> c, usage |-> u] : c \in CallLists, u \in Usages }

\* response of the final-answer call: it raises, has no content, has plain
\* text, or has text that holds an HTML document
FinalResponses == {"raise", "none", "text", "html"}

has_start_research(calls) == \E k \in 1..Len(calls) : calls[k].name = "start_research"

\* a test that looks at the first proposal only
has_stop_answer_first(calls) == calls # <<>> /\ calls[1].name = "stop_answer"

has_stop_answer(calls) == \E k \in 1..Len(calls) : calls[k].name = "stop_answer"

(***************************************************************************)
(* Events                                                                  *)
(***************************************************************************)
\* step: the step number of a thinking_step, steps_completed of a cancelled
\* event; stg: the "stage" of a cancelled or stage_switch event; text: the
\* assistant_message of a complete event
Event(type, step, stg, text) == [type |-> type, step |-> step, stage |-> stg, text |-> text]

TerminalTypes == {"complete", "cancelled", "error"}

(***************************************************************************)
(* The built-in tools of the two agents                                    *)
(***************************************************************************)
\* AgentModeAgent._initialize_tools: self.tools_hil
tools_hil == {"web_search", "start_research"}

\* a research toolset that keeps start_research
tools_research_with_start(key) ==
    {"web_search", "start_research", "stop_answer", "compact_context"}
        \cup (IF key THEN {"execute_python"} ELSE {})
        \cup {"file_read", "file_write", "file_list", "research_assistant"}

\* AgentModeAgent._initialize_tools: self.tools_research, for an agent that
\* has a workspace
tools_research(key) ==
    {"web_search", "stop_answer", "compact_context"}
        \cup (IF key THEN {"execute_python"} ELSE {})
        \cup {"file_read", "file_write", "file_list", "research_assistant"}

\* ChatModeAgent._initialize_tools, for an agent that has a workspace
chat_initialize_tools(key) ==
    {"web_search"} \cup (IF key THEN {"execute_python"} ELSE {}) \cup {"file_read"}

\* self.tools after an assignment of self.stage: reset_to_hil and
\* _switch_to_research_stage assign both
tools_of_stage(stg, key) == IF stg = "research" THEN tools_research(key) ELSE tools_hil

\* the state after construction; `keys` are the configurations considered
InitEngineWith(maxit, keys, log) ==
    /\ max_iterations = maxit
    /\ last_prompt_tokens = [p \in Procs |-> "zero"]
    /\ workspaces = {}
    /\ sandbox = {}
    /\ has_e2b_key \in keys
    /\ agent_tools = tools_hil
    /\ chat_tools = {}
    /\ messages = <<>>
    /\ has_mm = FALSE
    /\ last_mode = "none"
    /\ stage = "hil"
    /\ cancel_flags = FALSE
    /\ pc = [p \in Procs |-> "idle"]
    /\ mode = [p \in Procs |-> "none"]
    /\ tno = [p \in Procs |-> 0]
    /\ iteration = [p \in Procs |-> 0]
    /\ step_counter = [p \in Procs |-> 0]
    /\ thinking_steps = [p \in Procs |-> 0]
    /\ tool_calls = [p \in Procs |-> <<>>]
    /\ tc_idx = [p \in Procs |-> 0]
    /\ ready = [p \in Procs |-> FALSE]
    /\ was_research = [p \in Procs |-> FALSE]
    /\ events = [p \in Procs |-> <<>>]
    /\ cancel_req = [p \in Procs |-> FALSE]
    /\ turns_started = 0
    /\ cancels_made = 0
    /\ persisted = log
    /\ prev_mode = "none"
    /\ cleared = FALSE
    /\ restarts = 0
    /\ clears = 0

\* a server that holds no messages.json for the session
InitEngine(maxit, keys) == InitEngineWith(maxit, keys, <<>>)

\* BaseAgent.__init__: no sources yet, no response being built
InitSources ==
    /\ current_sources = <<>>
    /\ searches = 0
    /\ source_text = <<>>
    /\ rendered = {}
    /\ response = [sent |-> TRUE, sources |-> <<>>]
    /\ source_mode = "none"
(***************************************************************************)
(* The session directory on disk.  A path is a sequence of names and a     *)
(* name a sequence of characters, so that both pathlib's component-wise    *)
(* operations and str.startswith on the rendered path can be computed.     *)
(***************************************************************************)
DotDot == <<".", ".">>
\* chats/<session_id>, the directory of the session
SessionName == <<"s">>
\* workspace_agent
WorkspaceName == <<"w", "s">>
\* a directory next to the workspace whose name starts with the workspace's
SiblingName == <<"w", "s", "2">>
\* conversations
ConversationsName == <<"c">>
\* conv_<id> of a conversation that exists
ConvName == <<"k">>
\* notes.md
NotesName == <<"n">>
\* messages.json
MessagesName == <<"m">>

SessionDir == <<SessionName>>

Workspace == <<SessionName, WorkspaceName>>

ConversationsDir == Workspace \o <<ConversationsName>>

\* the session's own messages.json, a note in the workspace, and the log of
\* one research_assistant conversation
BaseFiles == { SessionDir \o <<MessagesName>>,
               Workspace \o <<NotesName>>,
               ConversationsDir \o <<ConvName, MessagesName>> }

SiblingFile == SessionDir \o <<SiblingName, NotesName>>

DirsOf(files) ==
    UNION { { SubSeq(f, 1, n) : n \in 0..(Len(f) - 1) } : f \in files }
        \cup {Workspace, ConversationsDir}

Result(tool, success, touched) == [tool |-> tool, success |-> success, touched |-> touched]

InitFs(files) ==
    /\ fs_files = files
    /\ fs_dirs = DirsOf(files)
    /\ fs_ops = 0
    /\ fs_result = Result("none", FALSE, {})

\* the path arguments a model response can carry: relative paths of up to
\* MaxPathLen names, and some absolute paths
RelComponents == {DotDot, WorkspaceName, SiblingName, NotesName, ConvName, MessagesName}

SeqsUpTo(S, n) == UNION { [1..k -> S] : k \in 0..n }

AbsolutePaths == { Workspace \o <<NotesName>>, SessionDir \o <<MessagesName>>, SiblingFile }

PathArgs ==
    { [abs |-> FALSE, parts |-> q] : q \in SeqsUpTo(RelComponents, MaxPathLen) }
        \cup { [abs |-> TRUE, parts |-> q] : q \in AbsolutePaths }

\* pathlib `base / arg`: an absolute right operand replaces the left one
Join(base, arg) == IF arg.abs THEN arg.parts ELSE base \o arg.parts

RECURSIVE Normalize(_, _)
Normalize(done, rest) ==
    IF rest = <<>> THEN done
    ELSE IF Head(rest) = DotDot
         THEN Normalize(IF done = <<>> THEN <<>> ELSE SubSeq(done, 1, Len(done) - 1),
                        Tail(rest))
         ELSE Normalize(Append(done, Head(rest)), Tail(rest))

\* Path.resolve() on a tree without symbolic links
resolve(p) == Normalize(<<>>, p)

\* Path.relative_to(base) does not raise ValueError
relative_to(p, base) == Len(base) <= Len(p) /\ SubSeq(p, 1, Len(base)) = base

RECURSIVE Render(_)
Render(p) == IF p = <<>> THEN <<>> ELSE <<"/">> \o Head(p) \o Render(Tail(p))

\* str(path)
str(p) == IF p = <<>> THEN <<"/">> ELSE Render(p)

\* str.startswith
startswith(a, b) == Len(b) <= Len(a) /\ SubSeq(a, 1, Len(b)) = b

\* the outcome of a failed lookup
ENOENT == << <<"?">> >>

\* the operating system's path walk: every name but the last is looked up in
\* a directory that exists
RECURSIVE Walk(_, _, _)
Walk(dirs, cur, rest) ==
    IF rest = <<>> THEN cur
    ELSE IF cur \notin dirs THEN ENOENT
    ELSE IF Head(rest) = DotDot
         THEN Walk(dirs, IF cur = <<>> THEN <<>> ELSE SubSeq(cur, 1, Len(cur) - 1), Tail(rest))
         ELSE Walk(dirs, Append(cur, Head(rest)), Tail(rest))

Lookup(dirs, p) == Walk(dirs, <<>>, p)

\* Path.mkdir(parents=True, exist_ok=True) on q, lexical prefix by prefix
RECURSIVE mkdir(_, _, _, _)
mkdir(files, dirs, q, k) ==
    IF k > Len(q) THEN [ok |-> TRUE, dirs |-> dirs]
    ELSE LET t == Lookup(dirs, SubSeq(q, 1, k))
         IN IF t = ENOENT \/ t \in files
            THEN [ok |-> FALSE, dirs |-> dirs]
            ELSE mkdir(files, dirs \cup {t}, q, k + 1)

\* Path.parent
parent(p) == SubSeq(p, 1, Len(p) - 1)

(***************************************************************************)
(* compact_context                                                         *)
(***************************************************************************)
system_messages(msgs) == SelectSeq(msgs, LAMBDA x : x.role = "system")

\* user messages at position i or later
UsersFrom(msgs, i) == Cardinality({ j \in i..Len(msgs) : msgs[j].role = "user" })

\* the backward scan found the K-th most recent user message
FoundKth(msgs, K) ==
    \E i \in 1..Len(msgs) : msgs[i].role = "user" /\ UsersFrom(msgs, i) = K

\* split_index after the scan, as a position counted from 1: the K-th most
\* recent user message, or past the end
split_index(msgs, K) ==
    IF FoundKth(msgs, K)
    THEN CHOOSE i \in 1..Len(msgs) : msgs[i].role = "user" /\ UsersFrom(msgs, i) = K
    ELSE Len(msgs) + 1

\* user_count after the scan
user_count(msgs, K) == IF FoundKth(msgs, K) THEN K ELSE UsersFrom(msgs, 1)

old_messages(msgs, K) ==
    SubSeq(msgs, Len(system_messages(msgs)) + 1, split_index(msgs, K) - 1)

recent_messages(msgs, K) == SubSeq(msgs, split_index(msgs, K), Len(msgs))

\* none of the three early returns is taken
Rewrites(msgs, K) ==
    /\ Len(msgs) > 3
    /\ user_count(msgs, K) >= K
    /\ Len(old_messages(msgs, K)) > 0

\* CompactContextTool.execute on the log; `summarized` says whether the
\* compaction agent and the confirmation call return
compact_context(msgs, K, summarized) ==
    IF Rewrites(msgs, K) /\ summarized
    THEN system_messages(msgs)
           \o << Msg("user", "summary", <<>>), Msg("assistant", "confirmation", <<>>) >>
           \o recent_messages(msgs, K)
           \o << Msg("user", "continue", <<>>) >>
    ELSE msgs

NoCompaction == [k |-> 0, rewrote |-> FALSE, log |-> <<>>]

InitCompact(log) ==
    /\ compact_in = log
    /\ compact_out = NoCompaction

\* no tool call made yet
InitSteps == steps = <<>>

\* MCP_SERVERS: the configured tool servers
Servers == {"chrome-devtools", "other"}

\* AgentModeAgent.__init__: a fresh MCPClient, tools_research without
\* external tools
NewMcpAgent ==
    /\ mcp_sessions' = {}
    /\ tools_cache' = [s \in Servers |-> {}]
    /\ research_mcp' = {}
    /\ mcp_outcome' = [s \in Servers |-> "none"]
    /\ mcp_switches' = 0
    /\ exit_stack' = [s \in Servers |-> 0]

InitMcp ==
    /\ mcp_sessions = {}
    /\ tools_cache = [s \in Servers |-> {}]
    /\ research_mcp = {}
    /\ mcp_outcome = [s \in Servers |-> "none"]
    /\ mcp_switches = 0
    /\ mcp_agents = 1
    /\ exit_stack = [s \in Servers |-> 0]

\* no provider call made yet
InitRetry ==
    /\ llm_attempts = <<>>
    /\ llm_calls = <<>>

\* no compaction forced yet
InitForced == compact_results = <<>>

\* an empty chat_history.json
InitHistory ==
    /\ chat_history = <<>>
    /\ final_answers = <<>>

\* _initialize_workspace: an empty cache directory
InitCache ==
    /\ cache_files = {}
    /\ cache_writes = <<>>

\* python's None
None == "None"

\* before the first turn: no response has been built
InitEnvelope ==
    /\ turn_path = "chat"
    /\ turn_steps = <<>>
    /\ turn_sources = <<>>
    /\ chat_response = [sent |-> FALSE]
    /\ response_entry = [sent |-> FALSE]

\* the searches that run through the one SearchService of the process
SearchIds == {"q1", "q2"}

\* SearchService.__init__ / SearchAgent.__init__: one agent, no manager yet
InitSearch ==
    /\ message_manager = None
    /\ mm_messages = [q \in SearchIds |-> <<>>]
    /\ search_pc = [q \in SearchIds |-> "idle"]
    /\ search_deep = [q \in SearchIds |-> FALSE]
    /\ llm_sent = {}

\* a deep-thinking search before its first deep_search
InitDedupe ==
    /\ first_batch_candidates = <<>>
    /\ second_batch = <<>>
    /\ delivered = <<>>
    /\ deep_pc = "first"

InitTail == InitEnvelope /\ InitSearch /\ InitDedupe

InitExtra == InitSteps /\ InitMcp /\ InitRetry /\ InitForced /\ InitHistory /\ InitCache /\ InitTail

Init ==
    /\ InitEngine(MAX_ITERATIONS, BOOLEAN)
    /\ InitSources
    /\ InitFs(BaseFiles)
    /\ InitCompact(<<>>)
    /\ InitExtra

(***************************************************************************)
(* AgentRouter                                                             *)
(***************************************************************************)
\* a constructor that adds the system prompt to whatever it loaded
MessageManagerInit_AlwaysPrompt(loaded, m) == add_system_message(loaded, m)

\* MessageManager.__init__: the system prompt is added when nothing was loaded
MessageManagerInit(loaded, m) ==
    IF loaded = <<>> THEN add_system_message(<<>>, m) ELSE loaded

\* AgentRouter._handle_mode_switch, its effect on the log
handle_mode_switch_log(msgs, m) ==
    IF m # last_mode /\ msgs # <<>> THEN [msgs EXCEPT ![1].tag = m] ELSE msgs

\* a reset that leaves the agent in the Research stage
reset_to_research == "research"

\* AgentModeAgent.reset_to_hil
reset_to_hil == "hil"

\* AgentRouter._handle_mode_switch, its effect on the stage
handle_mode_switch_stage(m) ==
    IF m # last_mode /\ m = "agent" THEN reset_to_hil ELSE stage

\* AgentRouter._check_auto_reset_needed
check_auto_reset_needed(msgs) ==
    /\ msgs # <<>>
    /\ msgs[Len(msgs)].role = "assistant"
    /\ msgs[Len(msgs)].tag = "html"

(***************************************************************************)
(* The ReAct loop of ChatModeAgent.chat_stream / AgentModeAgent.agent_stream *)
(***************************************************************************)
SetPc(p, v) == pc' = [pc EXCEPT ![p] = v]

Emit(p, evs) == events' = [events EXCEPT ![p] = evs]

\* a step counter that is never advanced
NextStep_NoIncrement(c) == c

\* step_counter += 1
NextStep(c) == c + 1

\* keep_recent_user_messages of the forced compaction
ForcedKeep == 10

\* shutil.rmtree of the workspace of mode m, when it exists
clean_workspace(ws, m) == ws \ {m}

\* self.tools of the agent of mode m
tools_of_mode(m) == IF m = "chat" THEN chat_tools ELSE agent_tools

\* BaseAgent._cleanup_sandbox_only(tools) of the agent of mode m: the session
\* is killed when `tools` holds execute_python
cleanup_sandbox_only(sb, m, tools) == IF "execute_python" \in tools THEN sb \ {m} ELSE sb

\* code after the while loop when ready_for_final_answer is false: Chat mode
\* answers with final_response as it stands, Agent mode with the
\* more-iterations note, which it also appends to the log; both remove the
\* workspace before they yield complete
AfterLoop(p, m, msgs, evs, final, ws) ==
    /\ messages' = (IF m = "agent" THEN add_assistant_message(msgs, "maxiter", <<>>) ELSE msgs)
    /\ workspaces' = clean_workspace(ws, m)
    /\ Emit(p, Append(evs, Event("complete", 0, "none",
                                 IF m = "agent" THEN "maxiter" ELSE final)))
    /\ SetPc(p, "yield_terminal")

\* a loop test that admits one iteration more
LoopContinues_OneMore(it, maxit) == it <= maxit

\* `while iteration < self.max_iterations`
LoopContinues(it, maxit) == it < maxit

\* `while iteration < self.max_iterations:` down to the model call: the
\* iteration count, the cancel check and its branch
LoopTop(p, m, it, msgs, evs, stg, ts, ws) ==
    IF LoopContinues(it, max_iterations)
    THEN /\ iteration' = [iteration EXCEPT ![p] = it + 1]
         /\ IF cancel_flags
            THEN LET stg1 == IF m = "agent" /\ stg = "research" THEN reset_to_hil ELSE stg
                 IN /\ stage' = stg1
                    /\ cancel_flags' = FALSE
                    /\ messages' = msgs
                    /\ workspaces' = clean_workspace(ws, m)
                    /\ sandbox' = sandbox
                    /\ Emit(p, Append(evs, Event("cancelled", ts,
                                       IF m = "agent" THEN stg1 ELSE "none", "")))
                    /\ SetPc(p, "yield_cancelled")
            ELSE /\ stage' = stg
                 /\ cancel_flags' = cancel_flags
                 /\ messages' = msgs
                 /\ workspaces' = ws
                 /\ sandbox' = sandbox
                 /\ Emit(p, evs)
                 /\ SetPc(p, "llm")
    ELSE /\ iteration' = [iteration EXCEPT ![p] = it]
         /\ stage' = stg
         /\ cancel_flags' = cancel_flags
         /\ sandbox' = cleanup_sandbox_only(sandbox, m, tools_of_mode(m))
         /\ AfterLoop(p, m, msgs, evs, "empty", ws)

\* `except Exception` of the loop: the error text is appended as an assistant
\* message and an error event ends the stream; Agent mode removes the
\* workspace first, Chat mode does not
ErrorPath(p, msgs, evs, ws) ==
    /\ messages' = add_assistant_message(msgs, "error", <<>>)
    /\ workspaces' = (IF mode[p] = "agent" THEN clean_workspace(ws, "agent") ELSE ws)
    /\ sandbox' = sandbox
    /\ Emit(p, Append(evs, Event("error", 0, "none", "")))
    /\ SetPc(p, "yield_terminal")

\* a turn is accepted: process_message_stream (which builds the router and
\* its two agents, each with its workspace, when the session has none),
\* route_stream and the agent's stream down to its first suspension
Begin(p, m, limit) ==
    /\ pc[p] = "idle"
    /\ turns_started < limit
    /\ LET msgs1 == IF has_mm THEN handle_mode_switch_log(messages, m)
                    ELSE MessageManagerInit(persisted, m)
           stg1  == IF has_mm THEN handle_mode_switch_stage(m) ELSE stage
           stg2  == IF m = "agent" /\ stg1 = "research" /\ check_auto_reset_needed(msgs1)
                    THEN reset_to_hil ELSE stg1
           ws1   == IF has_mm THEN workspaces ELSE workspaces \cup Modes
           ws2   == IF m = "agent" THEN ws1 \cup {"agent"} ELSE ws1
       IN /\ has_mm' = TRUE
          /\ last_mode' = m
          /\ mode' = [mode EXCEPT ![p] = m]
          /\ tno' = [tno EXCEPT ![p] = turns_started + 1]
          /\ turns_started' = turns_started + 1
          /\ was_research' = [was_research EXCEPT ![p] = (m = "agent" /\ stg2 = "research")]
          /\ last_prompt_tokens' = [last_prompt_tokens EXCEPT ![p] = "zero"]
          /\ LoopTop(p, m, 0, add_user_message(msgs1, "query"), <<>>, stg2, 0, ws2)
    /\ UNCHANGED <<max_iterations, step_counter, thinking_steps, tool_calls, tc_idx,
                   ready, cancel_req, cancels_made>>

\* a stop_answer branch that ends in `continue`: back to the model call
after_stop_answer_continue == "llm"

\* the stop_answer branch ends in `break`: the next suspension is the
\* final-answer call after the loop
after_stop_answer == "final_llm"

\* a reading in which a response without proposals always is the answer
text_is_final_always(m, stg) == TRUE

\* a response without tool proposals is the final answer in Chat mode and in
\* the HIL stage of Agent mode; the Research stage takes the other branch
text_is_final(m, stg) == m = "chat" \/ stg = "hil"

\* llm_provider.chat returns inside the loop and the response is interpreted,
\* down to the next suspension
LLMReturn(p, r) ==
    /\ pc[p] = "llm"
    /\ last_prompt_tokens' = [last_prompt_tokens EXCEPT
                                 ![p] = IF r.kind = "raise" THEN @ ELSE r.usage]
    /\ tool_calls' = [tool_calls EXCEPT ![p] = IF r.kind = "raise" THEN @ ELSE r.calls]
    /\ LET m == mode[p]
           ids == CallIds(tno[p], iteration[p], r.calls)
       IN
       CASE r.kind = "raise" ->
              /\ ErrorPath(p, messages, events[p], workspaces)
              /\ UNCHANGED <<stage, cancel_flags, iteration, step_counter, tc_idx, ready, was_research>>
         [] r.kind = "text" /\ text_is_final(m, stage) ->
              \* the text is the final answer
              /\ messages' = add_assistant_message(messages, "text", <<>>)
              /\ workspaces' = clean_workspace(workspaces, m)
              /\ sandbox' = (IF m = "chat"
                             THEN cleanup_sandbox_only(sandbox, m, tools_of_mode(m))
                             ELSE sandbox)
              /\ Emit(p, Append(events[p], Event("complete", 0, "none", "text")))
              /\ SetPc(p, "yield_terminal")
              /\ UNCHANGED <<stage, cancel_flags, iteration, step_counter, tc_idx, ready, was_research>>
         [] r.kind = "text" /\ m = "agent" /\ stage = "research" ->
              \* tool calling is mandatory: the text and an error prompt are appended
              /\ LoopTop(p, m, iteration[p],
                         add_user_message(add_assistant_message(messages, "text", <<>>),
                                          "error_prompt"),
                         events[p], stage, thinking_steps[p], workspaces)
              /\ UNCHANGED <<step_counter, tc_idx, ready, was_research>>
         [] r.kind = "calls" /\ m = "agent" /\ has_start_research(r.calls) ->
              IF stage = "hil"
              THEN \* _switch_to_research_stage, down to connect_all_servers
                   /\ stage' = "research"
                   /\ workspaces' = workspaces \cup {"agent"}
                   /\ sandbox' = sandbox
                   /\ was_research' = [was_research EXCEPT ![p] = TRUE]
                   /\ SetPc(p, "switching")
                   /\ UNCHANGED <<messages, events, cancel_flags, iteration, step_counter,
                                  tc_idx, ready>>
              ELSE \* self.tools has no start_research: None has no execute
                   /\ ErrorPath(p, messages, events[p], workspaces)
                   /\ UNCHANGED <<stage, cancel_flags, iteration, step_counter,
                                  tc_idx, ready, was_research>>
         [] r.kind = "calls" /\ m = "agent" /\ ~has_start_research(r.calls)
                             /\ has_stop_answer(r.calls) ->
              IF stage = "research"
              THEN /\ messages' = add_user_message(messages, "blog_prompt")
                   /\ ready' = [ready EXCEPT ![p] = TRUE]
                   /\ SetPc(p, after_stop_answer)
                   /\ UNCHANGED <<events, stage, cancel_flags, iteration, step_counter,
                                  tc_idx, was_research, workspaces, sandbox>>
              ELSE \* self.tools has no stop_answer: None has no execute
                   /\ ErrorPath(p, messages, events[p], workspaces)
                   /\ UNCHANGED <<stage, cancel_flags, iteration, step_counter,
                                  tc_idx, ready, was_research>>
         [] OTHER ->
              \* normal tools: the proposals are appended and the first is executed
              /\ r.kind = "calls"
              /\ messages' = add_assistant_message(messages, "calls", ids)
              /\ tc_idx' = [tc_idx EXCEPT ![p] = 1]
              /\ step_counter' = [step_counter EXCEPT ![p] = NextStep(step_counter[p])]
              /\ SetPc(p, "tool")
              /\ UNCHANGED <<events, stage, cancel_flags, iteration, ready, was_research,
                             workspaces, sandbox>>
    /\ UNCHANGED <<max_iterations, has_mm, last_mode, mode, tno, thinking_steps, cancel_req,
                   turns_started, cancels_made>>

\* connect_all_servers returns; the stage_switch event is yielded
SwitchConnected(p) ==
    /\ pc[p] = "switching"
    /\ Emit(p, Append(events[p], Event("stage_switch", 0, "research", "")))
    /\ SetPc(p, "yield_switch")
    /\ UNCHANGED <<max_iterations, messages, has_mm, last_mode, stage, cancel_flags, mode, tno,
                   iteration, step_counter, thinking_steps, tool_calls, tc_idx, ready,
                   was_research, cancel_req, turns_started, cancels_made,
                   last_prompt_tokens, workspaces, sandbox>>

\* the caller has taken the stage_switch event: the guidance is injected and
\* the loop continues
AfterSwitch(p) ==
    /\ pc[p] = "yield_switch"
    /\ LoopTop(p, mode[p], iteration[p], add_user_message(messages, "guidance"),
               events[p], stage, thinking_steps[p], workspaces)
    /\ UNCHANGED <<max_iterations, has_mm, last_mode, mode, tno, step_counter, thinking_steps,
                   tool_calls, tc_idx, ready, was_research, cancel_req,
                   turns_started, cancels_made, last_prompt_tokens>>

\* ThinkingStep(input=tool_args, ...): input is declared Dict[str, Any], so
\* arguments that decode to something else fail validation
create_thinking_step_raises(call) == call.args = "nonobj"

\* _execute_tool returns; the ThinkingStep is built and yielded.  A tool
\* that is in the toolset was executed: a search has cached its results and
\* execute_python has made its analysis directories under the workspace of the
\* mode, and execute_python has created its sandbox session if it had none.
ToolReturn(p) ==
    /\ pc[p] = "tool"
    /\ IF create_thinking_step_raises(tool_calls[p][tc_idx[p]])
       THEN /\ ErrorPath(p, messages, events[p], workspaces)
            /\ UNCHANGED thinking_steps
       ELSE /\ thinking_steps' = [thinking_steps EXCEPT ![p] = @ + 1]
            /\ LET name == tool_calls[p][tc_idx[p]].name
                   found == name \in tools_of_mode(mode[p])
               IN /\ workspaces' = (IF found THEN workspaces \cup {mode[p]} ELSE workspaces)
                  /\ sandbox' = (IF found /\ name = "execute_python"
                                 THEN sandbox \cup {mode[p]} ELSE sandbox)
            /\ Emit(p, Append(events[p], Event("thinking_step", step_counter[p], "none", "")))
            /\ SetPc(p, "yield_step")
            /\ UNCHANGED messages
    /\ UNCHANGED <<max_iterations, has_mm, last_mode, stage, cancel_flags, mode, tno, iteration,
                   step_counter, tool_calls, tc_idx, ready, was_research, cancel_req,
                   turns_started, cancels_made, last_prompt_tokens>>

\* the caller has taken the thinking_step event: the tool result is appended,
\* then the next proposal is executed, or (Agent mode) the context usage is
\* noted, compaction is forced when the toolset has compact_context, and the
\* loop continues
AfterStep(p) ==
    /\ pc[p] = "yield_step"
    /\ LET msgs1 == add_tool_result(messages, CallId(tno[p], iteration[p], tc_idx[p]))
           msgs2 == IF mode[p] = "agent" /\ last_prompt_tokens[p] # "zero"
                    THEN add_user_message(msgs1, "context_usage") ELSE msgs1
       IN IF tc_idx[p] < Len(tool_calls[p])
          THEN /\ messages' = msgs1
               /\ tc_idx' = [tc_idx EXCEPT ![p] = @ + 1]
               /\ step_counter' = [step_counter EXCEPT ![p] = NextStep(step_counter[p])]
               /\ SetPc(p, "tool")
               /\ UNCHANGED <<events, stage, cancel_flags, iteration, workspaces, sandbox>>
          ELSE IF /\ mode[p] = "agent"
                  /\ last_prompt_tokens[p] = "over"
                  /\ "compact_context" \in agent_tools
               THEN /\ messages' = msgs2
                    /\ SetPc(p, "compacting")
                    /\ UNCHANGED <<events, stage, cancel_flags, iteration, workspaces, sandbox,
                                   tc_idx, step_counter>>
               ELSE /\ LoopTop(p, mode[p], iteration[p], msgs2, events[p], stage,
                               thinking_steps[p], workspaces)
                    /\ UNCHANGED <<tc_idx, step_counter>>
    /\ UNCHANGED <<max_iterations, has_mm, last_mode, mode, tno, thinking_steps, tool_calls, ready,
                   was_research, cancel_req, turns_started, cancels_made, last_prompt_tokens>>

\* compact_tool.execute(keep_recent_user_messages=10) returns and the loop
\* continues; `summarized` says whether its model calls succeeded
CompactReturn(p, summarized) ==
    /\ pc[p] = "compacting"
    /\ LoopTop(p, mode[p], iteration[p], compact_context(messages, ForcedKeep, summarized),
               events[p], stage, thinking_steps[p], workspaces)
    /\ UNCHANGED <<max_iterations, has_mm, last_mode, mode, tno, step_counter, thinking_steps,
                   tool_calls, tc_idx, ready, was_research, cancel_req,
                   turns_started, cancels_made, last_prompt_tokens>>

\* a tail of agent_stream that removes the workspace first
after_final_answer_clean_first(r) ==
    <<"rmtree">> \o (IF r = "html" THEN <<"write_artifact">> ELSE <<>>)
        \o <<"add_response_to_history">>

\* the code of agent_stream after its `finally`, as the effects it has on
\* disk, in order: artifact.html is written when the answer holds an HTML
\* document, the response is appended to chat_history.json, the workspace is
\* removed
after_final_answer(r) ==
    (IF r = "html" THEN <<"write_artifact">> ELSE <<>>)
        \o <<"add_response_to_history", "rmtree">>

\* one effect: write_text raises when the workspace directory is gone, and
\* nothing runs after an exception
run_effect(st, eff) ==
    IF st.raised THEN st
    ELSE CASE eff = "write_artifact" ->
                IF "agent" \in st.ws THEN st ELSE [st EXCEPT !.raised = TRUE]
           [] eff = "add_response_to_history" ->
                [st EXCEPT !.saved = TRUE, !.saved_with_workspace = "agent" \in st.ws]
           [] OTHER -> [st EXCEPT !.ws = clean_workspace(st.ws, "agent")]

RECURSIVE run_effects_from(_, _, _)
run_effects_from(effs, i, st) ==
    IF i > Len(effs) THEN st ELSE run_effects_from(effs, i + 1, run_effect(st, effs[i]))

\* the effects in order, from the workspaces that exist
run_effects(effs, ws) ==
    run_effects_from(effs, 1, [ws |-> ws, raised |-> FALSE, saved |-> FALSE,
                               saved_with_workspace |-> FALSE])

\* the final-answer call returns (Agent mode, after stop_answer)
FinalLLMReturn(p, r) ==
    /\ pc[p] = "final_llm"
    /\ IF r \in {"raise", "none"}
       THEN \* the call raises, or add_assistant_message(content=None) does: the
            \* exception leaves agent_stream and process_message_stream reports it
            /\ Emit(p, Append(events[p], Event("error", 0, "none", "")))
            /\ sandbox' = cleanup_sandbox_only(sandbox, "agent", agent_tools)
            /\ UNCHANGED <<messages, stage, workspaces>>
       ELSE LET done == run_effects(after_final_answer(r), workspaces)
            IN /\ messages' = add_assistant_message(messages, r, <<>>)
               /\ stage' = (IF stage = "research" THEN reset_to_hil ELSE stage)
               /\ workspaces' = done.ws
               /\ sandbox' = cleanup_sandbox_only(sandbox, "agent",
                                                  IF stage = "research" THEN tools_hil
                                                  ELSE agent_tools)
               /\ Emit(p, Append(events[p],
                                 IF done.raised THEN Event("error", 0, "none", "")
                                 ELSE Event("complete", 0, "none", r)))
    /\ SetPc(p, "yield_terminal")
    /\ UNCHANGED <<max_iterations, has_mm, last_mode, cancel_flags, mode, tno, iteration, step_counter,
                   thinking_steps, tool_calls, tc_idx, ready, was_research, cancel_req,
                   turns_started, cancels_made, last_prompt_tokens>>

\* a cancel branch without its `break`: the loop goes on to the model call
AfterCancelled_NoBreak(p) ==
    /\ pc[p] = "yield_cancelled"
    /\ SetPc(p, "llm")
    /\ UNCHANGED <<max_iterations, messages, has_mm, last_mode, stage, cancel_flags,
                   mode, tno, iteration, step_counter, thinking_steps, tool_calls,
                   tc_idx, ready, was_research, events, cancel_req, turns_started,
                   cancels_made, last_prompt_tokens, workspaces, sandbox>>

\* the caller has taken the cancelled event: `break` leaves the loop and the
\* code after it runs
AfterCancelled(p) ==
    /\ pc[p] = "yield_cancelled"
    /\ sandbox' = cleanup_sandbox_only(sandbox, mode[p], tools_of_mode(mode[p]))
    /\ AfterLoop(p, mode[p], messages, events[p], "stopped", workspaces)
    /\ UNCHANGED <<max_iterations, has_mm, last_mode, stage, cancel_flags, mode, tno, iteration,
                   step_counter, thinking_steps, tool_calls, tc_idx, ready,
                   was_research, cancel_req, turns_started, cancels_made, last_prompt_tokens>>

\* the terminal event was yielded inside the `try` and is followed by
\* `return`: the error of the loop's handler, and the direct answer of HIL stage
returns_inside_try(p) ==
    /\ ~ready[p]
    /\ \/ events[p][Len(events[p])].type = "error"
       \/ mode[p] = "agent" /\ events[p][Len(events[p])].text = "text"

\* the generator is exhausted: its `finally` runs if it has not yet, and the
\* request ends
EndTurn(p) ==
    /\ pc[p] = "yield_terminal"
    /\ SetPc(p, "idle")
    /\ mode' = [mode EXCEPT ![p] = "none"]
    /\ tno' = [tno EXCEPT ![p] = 0]
    /\ iteration' = [iteration EXCEPT ![p] = 0]
    /\ step_counter' = [step_counter EXCEPT ![p] = 0]
    /\ thinking_steps' = [thinking_steps EXCEPT ![p] = 0]
    /\ tool_calls' = [tool_calls EXCEPT ![p] = <<>>]
    /\ tc_idx' = [tc_idx EXCEPT ![p] = 0]
    /\ ready' = [ready EXCEPT ![p] = FALSE]
    /\ was_research' = [was_research EXCEPT ![p] = FALSE]
    /\ events' = [events EXCEPT ![p] = <<>>]
    /\ cancel_req' = [cancel_req EXCEPT ![p] = FALSE]
    /\ last_prompt_tokens' = [last_prompt_tokens EXCEPT ![p] = "zero"]
    /\ sandbox' = (IF returns_inside_try(p)
                   THEN cleanup_sandbox_only(sandbox, mode[p], tools_of_mode(mode[p]))
                   ELSE sandbox)
    /\ UNCHANGED <<max_iterations, messages, has_mm, last_mode, stage, cancel_flags, turns_started,
                   cancels_made, workspaces>>

\* a request is suspended in a model call or a tool call
InFlight(p) == pc[p] \in {"llm", "tool", "final_llm", "switching", "compacting"}

\* ChatService.cancel_session (POST /session/{id}/stop)
cancel_session ==
    /\ cancels_made < MaxCancels
    /\ cancels_made' = cancels_made + 1
    /\ cancel_flags' = TRUE
    /\ cancel_req' = [p \in Procs |-> cancel_req[p] \/ InFlight(p)]
    /\ UNCHANGED <<max_iterations, messages, has_mm, last_mode, stage, pc, mode, tno, iteration,
                   step_counter, thinking_steps, tool_calls, tc_idx, ready,
                   was_research, events, turns_started, last_prompt_tokens, workspaces,
                   sandbox>>

\* MessageManager._save at the end of every add_* call and of a compaction
\* that rewrites: messages.json holds the log whenever an action has appended
\* to it
Saved == persisted' = IF messages' # messages THEN messages' ELSE persisted

\* AgentModeAgent.tools follows every assignment of AgentModeAgent.stage
ToolsFollowStage ==
    agent_tools' = IF stage' = stage THEN agent_tools
                   ELSE tools_of_stage(stage', has_e2b_key)

EngineFrame ==
    /\ Saved
    /\ ToolsFollowStage
    /\ UNCHANGED <<has_e2b_key, chat_tools, prev_mode, cleared, restarts, clears>>

\* chat_stream initializes the Chat tools on first use
BeginFrame(m) ==
    /\ Saved
    /\ ToolsFollowStage
    /\ chat_tools' = (IF m = "chat" /\ chat_tools = {}
                      THEN chat_initialize_tools(has_e2b_key) ELSE chat_tools)
    /\ prev_mode' = m
    /\ cleared' = FALSE
    /\ UNCHANGED <<has_e2b_key, restarts, clears>>

\* the server process is restarted between two turns: ChatService starts with
\* no routers and no cancel flags, the session directory stays on disk
Restart ==
    /\ \A p \in Procs : pc[p] = "idle"
    /\ restarts < MaxRestarts
    /\ restarts' = restarts + 1
    /\ has_mm' = FALSE
    /\ messages' = <<>>
    /\ last_mode' = "none"
    /\ stage' = "hil"
    /\ agent_tools' = tools_hil
    /\ chat_tools' = {}
    /\ sandbox' = {}
    /\ cancel_flags' = FALSE
    /\ UNCHANGED <<max_iterations, pc, mode, tno, iteration, step_counter, thinking_steps,
                   tool_calls, tc_idx, ready, was_research, events, cancel_req,
                   turns_started, cancels_made, persisted, prev_mode, cleared, clears,
                   last_prompt_tokens, workspaces, has_e2b_key>>

\* MessageManager.clear(keep_system=True)
clear(msgs) == SelectSeq(msgs, LAMBDA x : x.role = "system")

\* ChatService.clear_session_conversation for a session that has a record,
\* with AgentRouter.clear_conversation; it returns True
clear_session_conversation ==
    /\ \A p \in Procs : pc[p] = "idle"
    /\ turns_started > 0
    /\ clears < MaxClears
    /\ clears' = clears + 1
    /\ cleared' = TRUE
    /\ messages' = (IF has_mm THEN clear(messages) ELSE messages)
    /\ UNCHANGED <<max_iterations, has_mm, last_mode, stage, cancel_flags, pc, mode, tno,
                   iteration, step_counter, thinking_steps, tool_calls, tc_idx, ready,
                   was_research, events, cancel_req, turns_started, cancels_made,
                   persisted, prev_mode, restarts, last_prompt_tokens, workspaces, sandbox,
                   has_e2b_key, agent_tools, chat_tools>>

\* the requests in P are served, `limit` turns in all; the model answers from R
Serve(P, R, limit) ==
    \/ \E p \in P, m \in Modes : Begin(p, m, limit) /\ BeginFrame(m) /\ UNCHANGED otherVars
    \/ \E p \in P, r \in R : LLMReturn(p, r) /\ EngineFrame /\ UNCHANGED otherVars
    \/ \E p \in P : SwitchConnected(p) /\ EngineFrame /\ UNCHANGED otherVars
    \/ \E p \in P : AfterSwitch(p) /\ EngineFrame /\ UNCHANGED otherVars
    \/ \E p \in P : ToolReturn(p) /\ EngineFrame /\ UNCHANGED otherVars
    \/ \E p \in P : AfterStep(p) /\ EngineFrame /\ UNCHANGED otherVars
    \/ \E p \in P, summarized \in BOOLEAN :
          CompactReturn(p, summarized) /\ EngineFrame /\ UNCHANGED otherVars
    \/ \E p \in P, r \in FinalResponses : FinalLLMReturn(p, r) /\ EngineFrame /\ UNCHANGED otherVars
    \/ \E p \in P : AfterCancelled(p) /\ EngineFrame /\ UNCHANGED otherVars
    \/ \E p \in P : EndTurn(p) /\ EngineFrame /\ UNCHANGED otherVars
    \/ cancel_session /\ EngineFrame /\ UNCHANGED otherVars

\* a session whose caller submits a turn when the stream of the previous one
\* has ended
Next == Serve({"r1"}, Responses, MaxTurns)

Spec == Init /\ [][Next]_vars

\* the first turn of a session
NextTurn == Serve({"r1"}, Responses, 1)

SpecTurn == Init /\ [][NextTurn]_vars

\* the steps of request p's own turn: each is the return of a call the turn
\* awaits, or the caller taking an event the turn has yielded
TurnStep(p) ==
    \/ \E r \in Responses : LLMReturn(p, r) /\ EngineFrame /\ UNCHANGED otherVars
    \/ SwitchConnected(p) /\ EngineFrame /\ UNCHANGED otherVars
    \/ AfterSwitch(p) /\ EngineFrame /\ UNCHANGED otherVars
    \/ ToolReturn(p) /\ EngineFrame /\ UNCHANGED otherVars
    \/ AfterStep(p) /\ EngineFrame /\ UNCHANGED otherVars
    \/ \E summarized \in BOOLEAN :
          CompactReturn(p, summarized) /\ EngineFrame /\ UNCHANGED otherVars
    \/ \E r \in FinalResponses : FinalLLMReturn(p, r) /\ EngineFrame /\ UNCHANGED otherVars
    \/ AfterCancelled(p) /\ EngineFrame /\ UNCHANGED otherVars

\* the first turn of a session whose awaited calls return and whose caller
\* consumes the stream
SpecTurnFair == SpecTurn /\ WF_vars(TurnStep("r1"))

\* model responses of the overlapping-requests specification: one proposal
\* per response
ConcResponses == { r \in Responses : Len(r.calls) <= 1 }

\* model responses of the sandbox specification: those of one proposal, and
\* an execute_python proposal
SandboxResponses ==
    ConcResponses
        \cup { [kind |-> "calls", calls |-> <<ToolCall("execute_python", "obj")>>, usage |-> u] :
                   u \in Usages }

\* a session on a server that has a sandbox key
NextSandbox == Serve({"r1"}, SandboxResponses, MaxTurns)

InitSandbox ==
    /\ InitEngine(MAX_ITERATIONS, {TRUE})
    /\ InitSources
    /\ InitFs(BaseFiles)
    /\ InitCompact(<<>>)
    /\ InitExtra

SpecSandbox == InitSandbox /\ [][NextSandbox]_vars

\* model responses of the overlapping-requests specification: the prompts
\* are over the compaction threshold
LargeResponses == { r \in ConcResponses : r.kind = "raise" \/ r.usage = "over" }

\* model responses of the final-answer specification: a prompt under the
\* compaction threshold
ArtifactResponses == { r \in ConcResponses : r.kind = "raise" \/ r.usage = "under" }

\* a session whose caller submits turns without waiting, on a server without
\* a sandbox key
NextConc == Serve(Procs, LargeResponses, MaxTurns)

InitConc ==
    /\ InitEngine(ConcIterations, {FALSE})
    /\ InitSources
    /\ InitFs(BaseFiles)
    /\ InitCompact(<<>>)
    /\ InitExtra

SpecConc == InitConc /\ [][NextConc]_vars

\* a session whose caller submits turns one after the other and may clear the
\* conversation between them, on a server that may be restarted between them
NextSession ==
    \/ Serve({"r1"}, ConcResponses, MaxSessionTurns)
    \/ Restart /\ UNCHANGED otherVars
    \/ clear_session_conversation /\ UNCHANGED otherVars

SpecSession == Init /\ [][NextSession]_vars

(***************************************************************************)
(* The tools that take a path-like argument                                *)
(***************************************************************************)
FsDone(result) ==
    /\ fs_result' = result
    /\ fs_ops' = fs_ops + 1

\* FileReadTool.execute with _get_file_path
file_read(arg) ==
    /\ fs_ops < MaxFsOps
    /\ LET file_path == Join(Workspace, arg)
           t == Lookup(fs_dirs, file_path)
       IN IF ~relative_to(resolve(file_path), Workspace)
          THEN FsDone(Result("file_read", FALSE, {}))
          ELSE IF t \notin fs_files
               THEN FsDone(Result("file_read", FALSE, {}))
               ELSE FsDone(Result("file_read", TRUE, {t}))
    /\ UNCHANGED <<fs_files, fs_dirs>>

\* FileWriteTool.execute with _get_file_path, which creates the parent
\* directories before the file is written
file_write(arg) ==
    /\ fs_ops < MaxFsOps
    /\ LET file_path == Join(Workspace, arg)
       IN IF ~relative_to(resolve(file_path), Workspace)
          THEN /\ FsDone(Result("file_write", FALSE, {}))
               /\ UNCHANGED <<fs_files, fs_dirs>>
          ELSE LET made == mkdir(fs_files, fs_dirs, parent(file_path), 1)
                   t == Lookup(made.dirs, file_path)
               IN /\ fs_dirs' = made.dirs
                  /\ IF ~made.ok \/ t = ENOENT \/ t \in made.dirs
                     THEN /\ FsDone(Result("file_write", FALSE, made.dirs \ fs_dirs))
                          /\ fs_files' = fs_files
                     ELSE /\ FsDone(Result("file_write", TRUE,
                                           (made.dirs \ fs_dirs) \cup {t}))
                          /\ fs_files' = fs_files \cup {t}

\* the security check of FileEditTool.execute
file_edit_check(full_path) == startswith(str(resolve(full_path)), str(Workspace))

\* FileEditTool.execute; `found` says whether old_text occurs exactly once
file_edit(arg, found) ==
    /\ fs_ops < MaxFsOps
    /\ LET full_path == Join(Workspace, arg)
           t == Lookup(fs_dirs, full_path)
       IN IF ~file_edit_check(full_path)
          THEN FsDone(Result("file_edit", FALSE, {}))
          ELSE IF t \notin fs_files
               THEN FsDone(Result("file_edit", FALSE, {}))
               ELSE FsDone(Result("file_edit", found, {t}))
    /\ UNCHANGED <<fs_files, fs_dirs>>

\* conv_<uuid> of a conversation created by the call
NewConvName == <<"k", <<"1", "2", "3", "4">>[fs_ops + 1]>>

\* ResearchAssistantTool.execute; `answered` says whether the sub-agent's
\* model calls succeed.  The conversation log is loaded and written by its
\* MessageManager before the first model call.
research_assistant(arg, answered) ==
    /\ fs_ops < MaxFsOps
    /\ IF ~arg.abs /\ arg.parts = <<>>
       THEN LET conv_dir == ConversationsDir \o <<NewConvName>>
                f == conv_dir \o <<MessagesName>>
            IN /\ fs_dirs' = fs_dirs \cup {conv_dir}
               /\ fs_files' = fs_files \cup {f}
               /\ FsDone(Result("research_assistant", answered, {conv_dir, f}))
       ELSE LET conv_dir == Join(ConversationsDir, arg)
                d == Lookup(fs_dirs, conv_dir)
                f == Lookup(fs_dirs, conv_dir \o <<MessagesName>>)
            IN /\ IF d \notin (fs_dirs \cup fs_files) \/ f \notin (fs_dirs \cup fs_files)
                  THEN FsDone(Result("research_assistant", FALSE, {}))
                  ELSE IF f \in fs_files
                       THEN FsDone(Result("research_assistant", answered, {f}))
                       ELSE FsDone(Result("research_assistant", answered, {}))
               /\ UNCHANGED <<fs_files, fs_dirs>>

NextPath ==
    \/ \E arg \in PathArgs : file_read(arg) /\ UNCHANGED <<engineVars, sourceVars, compactVars, extraVars>>
    \/ \E arg \in PathArgs : file_write(arg) /\ UNCHANGED <<engineVars, sourceVars, compactVars, extraVars>>
    \/ \E arg \in PathArgs, found \in BOOLEAN :
          file_edit(arg, found) /\ UNCHANGED <<engineVars, sourceVars, compactVars, extraVars>>
    \/ \E arg \in PathArgs, answered \in BOOLEAN :
          research_assistant(arg, answered) /\ UNCHANGED <<engineVars, sourceVars, compactVars, extraVars>>

\* the disk outside the workspace is not the program's: a sibling directory
\* may or may not be there
InitPath ==
    /\ InitEngine(MAX_ITERATIONS, BOOLEAN)
    /\ InitSources
    /\ \E files \in {BaseFiles, BaseFiles \cup {SiblingFile}} : InitFs(files)
    /\ InitCompact(<<>>)
    /\ InitExtra

SpecPath == InitPath /\ [][NextPath]_vars

(***************************************************************************)
(* web_search and the sources of a response                                *)
(***************************************************************************)
Urls == {"u1", "u2", "u3"}

\* what the search vendor returns for one query: the URLs of its results in
\* order, or a failure
VendorResults ==
    { [error |-> FALSE, urls |-> q] : q \in SeqsUpTo(Urls, MaxResults) }
        \cup { [error |-> TRUE, urls |-> <<>>] }

\* WebSearchTool.execute: one normalized result per vendor result, in order;
\* a vendor failure gives an error and no results
normalized_results(v) == IF v.error THEN <<>> ELSE v.urls

\* the `sources` list built by the enumerate(result["results"], 1) loop
Sources(results) == [i \in 1..Len(results) |-> [idx |-> i, url |-> results[i]]]

\* the lines of formatted_text: "[idx] title" in Chat mode, a bullet in Agent
\* mode
FormattedLines(m, results) ==
    [i \in 1..Len(results) |-> [label |-> IF m = "chat" THEN i ELSE 0, url |-> results[i]]]

\* the top of chat_stream / agent_stream: self.current_sources = []
StartResponse(m) ==
    /\ response.sent
    /\ source_mode' = m
    /\ current_sources' = <<>>
    /\ searches' = 0
    /\ source_text' = <<>>
    /\ rendered' = {}
    /\ response' = [sent |-> FALSE, sources |-> <<>>]

\* one web_search call of the turn: WebSearchTool.execute, then
\* _process_web_search_result (Chat) or _process_web_search_for_agent (Agent)
WebSearch(v) ==
    /\ ~response.sent
    /\ searches < MaxSearches
    /\ searches' = searches + 1
    /\ LET results == normalized_results(v)
       IN IF v.error \/ results = <<>>
          THEN /\ source_text' = <<>>
               /\ current_sources' = current_sources
          ELSE /\ source_text' = FormattedLines(source_mode, results)
               /\ current_sources' = Sources(results)
    /\ rendered' = rendered \cup { source_text'[i] : i \in DOMAIN source_text' }
    /\ UNCHANGED <<source_mode, response>>

\* the ChatResponse of the turn: sources=self.current_sources
Respond ==
    /\ ~response.sent
    /\ response' = [sent |-> TRUE, sources |-> current_sources]
    /\ UNCHANGED <<source_mode, current_sources, searches, source_text, rendered>>

NextSources ==
    \/ \E m \in Modes : StartResponse(m) /\ UNCHANGED <<engineVars, pathVars, compactVars, extraVars>>
    \/ \E v \in VendorResults : WebSearch(v) /\ UNCHANGED <<engineVars, pathVars, compactVars, extraVars>>
    \/ Respond /\ UNCHANGED <<engineVars, pathVars, compactVars, extraVars>>

SpecSources == Init /\ [][NextSources]_vars

(***************************************************************************)
(* The compaction sub-agent and a turn of a long session                   *)
(***************************************************************************)
\* max_iterations of the compaction agent
CompactIterations == 10

\* a run of the compaction agent and of the confirmation call: the number of
\* responses that propose tools before the one that does not, what that
\* response is (a text, no content, or the call or a tool argument raises),
\* and what the confirmation call does
CompactRuns ==
    [rounds : 0..CompactIterations, end : {"text", "empty", "raise"},
     confirm : {"text", "empty", "raise"}]

\* summary_text after the loop of the compaction agent, or the exception
\* that left it
summary_text(run) ==
    IF run.end = "raise" THEN "raise"
    ELSE IF run.rounds >= CompactIterations THEN "none"
    ELSE IF run.end = "empty" THEN "none"
    ELSE "text"

\* a compaction that rewrites whatever its agent did
Summarizes_Always(run) == TRUE

\* the run reaches step 11 of execute: a digest was produced and the
\* confirmation call returned (an empty confirmation gets the fallback text)
Summarizes(run) == summary_text(run) = "text" /\ run.confirm # "raise"

\* the envelope CompactContextTool.execute returns; no exception leaves it
execute_envelope(msgs, K, run) ==
    IF ~Rewrites(msgs, K) THEN [success |-> TRUE, error |-> "none"]
    ELSE IF summary_text(run) = "raise" THEN [success |-> FALSE, error |-> "exception"]
    ELSE IF summary_text(run) = "none" THEN [success |-> FALSE, error |-> "timeout"]
    ELSE IF run.confirm = "raise" THEN [success |-> FALSE, error |-> "exception"]
    ELSE [success |-> TRUE, error |-> "none"]

\* the log of a session that has run ForcedKeep turns before
LongLog ==
    <<Msg("system", "agent", <<>>)>>
        \o [i \in 1..(2 * ForcedKeep) |->
               IF i % 2 = 1 THEN Msg("user", "query", <<>>) ELSE Msg("assistant", "text", <<>>)]

\* the forced compaction of agent_stream returns its envelope, which is
\* logged, and the loop continues
ForcedCompaction(p, run) ==
    /\ CompactReturn(p, Summarizes(run))
    /\ compact_results' = Append(compact_results, execute_envelope(messages, ForcedKeep, run))

\* one turn on a server that holds the long log of the session
NextLong ==
    \/ \E m \in Modes : Begin("r1", m, 1) /\ BeginFrame(m) /\ UNCHANGED otherVars
    \/ \E r \in LargeResponses : LLMReturn("r1", r) /\ EngineFrame /\ UNCHANGED otherVars
    \/ SwitchConnected("r1") /\ EngineFrame /\ UNCHANGED otherVars
    \/ AfterSwitch("r1") /\ EngineFrame /\ UNCHANGED otherVars
    \/ ToolReturn("r1") /\ EngineFrame /\ UNCHANGED otherVars
    \/ AfterStep("r1") /\ EngineFrame /\ UNCHANGED otherVars
    \/ \E run \in CompactRuns :
          /\ ForcedCompaction("r1", run)
          /\ EngineFrame
          /\ UNCHANGED <<sourceVars, pathVars, compactVars, stepVars, mcpVars, retryVars, historyVars, cacheVars, tailVars>>
    \/ \E r \in FinalResponses : FinalLLMReturn("r1", r) /\ EngineFrame /\ UNCHANGED otherVars
    \/ AfterCancelled("r1") /\ EngineFrame /\ UNCHANGED otherVars
    \/ EndTurn("r1") /\ EngineFrame /\ UNCHANGED otherVars
    \/ cancel_session /\ EngineFrame /\ UNCHANGED otherVars

InitLong ==
    /\ InitEngineWith(MAX_ITERATIONS, {FALSE}, LongLog)
    /\ InitSources
    /\ InitFs(BaseFiles)
    /\ InitCompact(<<>>)
    /\ InitExtra

SpecLong == InitLong /\ [][NextLong]_vars

(***************************************************************************)
(* Final answers and chat_history.json                                     *)
(***************************************************************************)
\* the final-answer call returns: the answer is noted, and the response is
\* appended to chat_history.json when the tail of agent_stream gets there
FinalAnswer(p, r) ==
    /\ FinalLLMReturn(p, r)
    /\ LET done == run_effects(after_final_answer(r), workspaces)
       IN /\ final_answers' = (IF r \in {"raise", "none"} THEN final_answers
                               ELSE Append(final_answers, [turn |-> tno[p], html |-> r = "html"]))
          /\ chat_history' = (IF r \in {"raise", "none"} \/ ~done.saved THEN chat_history
                              ELSE Append(chat_history,
                                          [turn |-> tno[p], artifact |-> r = "html",
                                           workspace |-> done.saved_with_workspace]))

\* a session whose caller submits turns without waiting
NextArtifact ==
    \/ \E p \in Procs, m \in Modes : Begin(p, m, MaxTurns) /\ BeginFrame(m) /\ UNCHANGED otherVars
    \/ \E p \in Procs, r \in ArtifactResponses : LLMReturn(p, r) /\ EngineFrame /\ UNCHANGED otherVars
    \/ \E p \in Procs : SwitchConnected(p) /\ EngineFrame /\ UNCHANGED otherVars
    \/ \E p \in Procs : AfterSwitch(p) /\ EngineFrame /\ UNCHANGED otherVars
    \/ \E p \in Procs : ToolReturn(p) /\ EngineFrame /\ UNCHANGED otherVars
    \/ \E p \in Procs : AfterStep(p) /\ EngineFrame /\ UNCHANGED otherVars
    \/ \E p \in Procs, r \in FinalResponses :
          /\ FinalAnswer(p, r)
          /\ EngineFrame
          /\ UNCHANGED <<sourceVars, pathVars, compactVars, stepVars, mcpVars, retryVars, forcedVars, cacheVars, tailVars>>
    \/ \E p \in Procs : AfterCancelled(p) /\ EngineFrame /\ UNCHANGED otherVars
    \/ \E p \in Procs : EndTurn(p) /\ EngineFrame /\ UNCHANGED otherVars
    \/ cancel_session /\ EngineFrame /\ UNCHANGED otherVars

SpecArtifact == InitConc /\ [][NextArtifact]_vars

(***************************************************************************)
(* The page cache of web_search.  A title and a file name are sequences   *)
(* of characters.                                                          *)
(***************************************************************************)
\* longest title of a search result
MaxTitleLen == 3

\* results with a body cached in one turn
MaxCached == 3

\* max_length of _sanitize_filename
MaxLength == 100

\* the characters of a title: a letter, a digit, a blank and a punctuation
\* mark
TitleChars == {"a", "1", " ", "!"}

Titles == SeqsUpTo(TitleChars, MaxTitleLen)

\* re.sub(r'[^\w\s-]', '', title)
drop_special(t) == SelectSeq(t, LAMBDA c : c # "!")

\* re.sub(r'\s+', '_', ...) followed by re.sub(r'_+', '_', ...): every run
\* of blanks and underscores becomes one underscore
RECURSIVE squeeze(_)
squeeze(t) ==
    IF t = <<>> THEN <<>>
    ELSE LET c == IF Head(t) = " " THEN "_" ELSE Head(t)
             rest == squeeze(Tail(t))
         IN IF c = "_" /\ rest # <<>> /\ Head(rest) = "_" THEN rest ELSE <<c>> \o rest

\* str.strip('_')
RECURSIVE strip_underscores(_)
strip_underscores(t) ==
    IF t = <<>> THEN <<>>
    ELSE IF Head(t) = "_" THEN strip_underscores(Tail(t))
    ELSE IF t[Len(t)] = "_" THEN strip_underscores(SubSeq(t, 1, Len(t) - 1))
    ELSE t

\* WebSearchTool._sanitize_filename
sanitize_filename(title) ==
    IF title = <<>> THEN <<"untitled">>
    ELSE LET cut == SubSeq(squeeze(drop_special(title)), 1,
                           IF Len(squeeze(drop_special(title))) < MaxLength
                           THEN Len(squeeze(drop_special(title))) ELSE MaxLength)
             sanitized == strip_underscores(cut)
         IN IF sanitized = <<>> THEN <<"untitled">> ELSE sanitized

\* str(counter), for the counters the cache can reach
Digit(k) == CASE k = 1 -> "1" [] k = 2 -> "2" [] k = 3 -> "3" [] k = 4 -> "4" [] OTHER -> "5"

\* f"{safe_filename}.md" and f"{safe_filename}_{counter}.md"
file_name(safe, counter) ==
    IF counter = 0 THEN safe \o <<".md">> ELSE safe \o <<"_", Digit(counter), ".md">>

\* `while file_path.exists()`: the first name of the series that is free
RECURSIVE file_path(_, _, _)
file_path(files, safe, counter) ==
    IF file_name(safe, counter) \in files THEN file_path(files, safe, counter + 1)
    ELSE file_name(safe, counter)

\* a cache path taken without looking at the directory
cache_path_unchecked(files, title) == file_name(sanitize_filename(title), 0)

\* the path a result with this title is cached at
cache_path(files, title) == file_path(files, sanitize_filename(title), 0)

\* the caching of one search result in WebSearchTool.execute: a result
\* without a body is not cached
CacheResult(title, content) ==
    /\ Len(cache_writes) < MaxCached
    /\ IF content
       THEN LET path == cache_path(cache_files, title)
            IN /\ cache_writes' = Append(cache_writes,
                                         [title |-> title, path |-> path,
                                          existed |-> path \in cache_files])
               /\ cache_files' = cache_files \cup {path}
       ELSE /\ cache_writes' = Append(cache_writes,
                                      [title |-> <<>>, path |-> <<>>, existed |-> FALSE])
            /\ cache_files' = cache_files

NextCache ==
    \E title \in Titles, content \in BOOLEAN :
        CacheResult(title, content)
            /\ UNCHANGED <<engineVars, sourceVars, pathVars, compactVars, stepVars, mcpVars,
                           retryVars, forcedVars, historyVars, tailVars>>

SpecCache == Init /\ [][NextCache]_vars

(***************************************************************************)
(* compact_context applied to a log                                        *)
(***************************************************************************)
\* what a log holds after its system message
LogMessages ==
    { Msg("user", "query", <<>>), Msg("assistant", "text", <<>>),
      Msg("tool", "result", <<CallId(1, 1, 1)>>) }

\* a log begins with the system prompt and the query of the first turn
Logs ==
    { <<Msg("system", "agent", <<>>), Msg("user", "query", <<>>)>> \o q :
          q \in SeqsUpTo(LogMessages, MaxLogLen) }

\* one call of the tool on the log
CompactContext(K, summarized) ==
    /\ compact_out = NoCompaction
    /\ compact_out' = [k |-> K,
                       rewrote |-> Rewrites(compact_in, K) /\ summarized,
                       log |-> compact_context(compact_in, K, summarized)]
    /\ UNCHANGED compact_in

NextCompact ==
    \E K \in 1..MaxKeep, summarized \in BOOLEAN :
        CompactContext(K, summarized) /\ UNCHANGED <<engineVars, sourceVars, pathVars, extraVars>>

InitCompactLogs ==
    /\ InitEngine(MAX_ITERATIONS, BOOLEAN)
    /\ InitSources
    /\ InitFs(BaseFiles)
    /\ \E log \in Logs : InitCompact(log)
    /\ InitExtra

SpecCompact == InitCompactLogs /\ [][NextCompact]_vars

(***************************************************************************)
(* _execute_tool and _create_thinking_step: from a tool's outcome to the   *)
(* text handed to the model and the ThinkingStep shown to the user.  A     *)
(* text is a sequence of fragments, its literal parts kept apart from the  *)
(* parts that come from outside.                                           *)
(***************************************************************************)
\* tool calls of one response
MaxStepCalls == 2

\* the toolset of the agent, with one external-bridge tool
StepTools == {"web_search", "file_read", "execute_python", "mcp_x"}

\* the tool names a proposal can carry
StepNames == StepTools \cup {"nope"}

\* text that comes from outside: an exception message, an error field, the
\* output of an external tool
OutsideTexts == { <<"disk full">>, <<"Failed to", " reach the server">> }

\* what tool.execute does: it raises, or returns a result envelope
Outcomes ==
    { [kind |-> "raise", success |-> FALSE, text |-> t] : t \in OutsideTexts }
        \cup { [kind |-> "dict", success |-> b, text |-> t] : b \in BOOLEAN, t \in OutsideTexts }

\* the arguments decode to an object, or do not decode
StepArgs == {"obj", "undecodable"}

\* json.dumps(result, indent=2) of an envelope
json_dumps(outcome) ==
    <<"{", IF outcome.success THEN "\"success\": true" ELSE "\"success\": false">>
        \o outcome.text \o <<"}">>

\* _process_web_search_result / _process_web_search_for_agent
process_web_search_result(outcome) ==
    IF outcome.success THEN <<"Search query: ">> \o outcome.text
    ELSE <<"Search failed: ">> \o outcome.text

\* BaseAgent._execute_tool / AgentModeAgent._execute_tool: the result text
execute_tool(name, args, tools, outcome) ==
    IF args = "undecodable" THEN <<"Failed to", " parse tool arguments: ">>
    ELSE IF name \notin tools THEN <<"Tool '", name, "' not found">>
    ELSE IF outcome.kind = "raise" THEN <<"Tool execution failed", ": ">> \o outcome.text
    ELSE IF name = "web_search" THEN process_web_search_result(outcome)
    ELSE IF name = "mcp_x"
         THEN IF outcome.success THEN outcome.text ELSE <<"Error: ">> \o outcome.text
    ELSE json_dumps(outcome)

\* `"' not found" in tool_result`
contains(text, fragment) == \E i \in DOMAIN text : text[i] = fragment

\* is_error of _create_thinking_step
is_error(tool_result) ==
    \/ startswith(tool_result, <<"Failed to">>)
    \/ startswith(tool_result, <<"Tool execution failed">>)
    \/ startswith(tool_result, <<"Tool '">>) /\ contains(tool_result, "' not found")

\* BaseAgent._create_thinking_step, with the call and outcome it was built for
create_thinking_step(name, args, outcome, tool_result) ==
    [tool |-> name, args |-> args, outcome |-> outcome,
     output |-> tool_result, success |-> ~is_error(tool_result)]

\* one tool call of the response: _execute_tool, then _create_thinking_step
ExecuteTool(name, args, outcome) ==
    /\ Len(steps) < MaxStepCalls
    /\ steps' = Append(steps, create_thinking_step(name, args, outcome,
                                                   execute_tool(name, args, StepTools, outcome)))

NextSteps ==
    \E name \in StepNames, args \in StepArgs, outcome \in Outcomes :
        ExecuteTool(name, args, outcome)
            /\ UNCHANGED <<engineVars, sourceVars, pathVars, compactVars, mcpVars, retryVars, forcedVars, historyVars, cacheVars, tailVars>>

SpecSteps == Init /\ [][NextSteps]_vars

(***************************************************************************)
(* MCPClient and the external tools of _switch_to_research_stage           *)
(***************************************************************************)
\* stage switches of one agent
MaxSwitches == 3

\* agents built for the session (one per router)
MaxAgents == 2

\* the tool lists a server can answer list_tools with
ToolLists == { {"navigate"}, {"navigate", "click"} }

\* how _connect_server can go for one server: the transport or the session
\* initialisation raises, list_tools raises, or the tools are listed
Connections ==
    { [kind |-> k, tools |-> {}] : k \in {"connect_raises", "list_raises"} }
        \cup { [kind |-> "listed", tools |-> T] : T \in ToolLists }

\* MCPClient._connect_server for server s, its effect on self.sessions
connect_server_sessions(sessions, s, c) ==
    IF c.kind = "connect_raises" THEN sessions ELSE sessions \cup {s}

\* MCPClient._connect_server for server s, its effect on self.tools_cache
connect_server_cache(cache, s, c) ==
    IF c.kind = "listed" THEN [cache EXCEPT ![s] = c.tools] ELSE cache

\* MCPClient._connect_server for server s, its effect on self.exit_stack:
\* the stdio_client context, which starts the child process of the server, is
\* entered into the stack on every call and left only by cleanup.  A
\* connection that raises is taken to have started no process
connect_server_stack(stack, s, c) ==
    IF c.kind = "connect_raises" THEN stack ELSE [stack EXCEPT ![s] = @ + 1]

\* MCPClient.get_all_tools: (server, tool name) of every cached tool
get_all_tools(cache) == { <<s, t>> \in Servers \X UNION ToolLists : t \in cache[s] }

\* MCPTool.name
mcp_tool_name(def) == <<"mcp_", def[1], "_", def[2]>>

\* _switch_to_research_stage from connect_all_servers on: every server is
\* tried, a failure is logged and skipped, and an MCPTool is put into
\* self.tools (the tools_research dict) for every cached tool
SwitchToResearch(conn) ==
    /\ mcp_switches < MaxSwitches
    /\ mcp_switches' = mcp_switches + 1
    /\ mcp_sessions' = { s \in Servers :
                            s \in connect_server_sessions(mcp_sessions, s, conn[s]) }
    /\ tools_cache' = [s \in Servers |-> connect_server_cache(tools_cache, s, conn[s])[s]]
    /\ research_mcp' = research_mcp \cup { mcp_tool_name(d) : d \in get_all_tools(tools_cache') }
    /\ mcp_outcome' = [s \in Servers |-> conn[s].kind]
    /\ exit_stack' = [s \in Servers |-> connect_server_stack(exit_stack, s, conn[s])[s]]
    /\ UNCHANGED mcp_agents

\* the router of the session is built again (server restart, deleted
\* session): a new AgentModeAgent with a new MCPClient
NewRouter ==
    /\ mcp_agents < MaxAgents
    /\ mcp_agents' = mcp_agents + 1
    /\ NewMcpAgent

NextMcp ==
    \/ \E conn \in [Servers -> Connections] :
           SwitchToResearch(conn) /\ UNCHANGED <<engineVars, sourceVars, pathVars, compactVars, stepVars, retryVars, forcedVars, historyVars, cacheVars, tailVars>>
    \/ NewRouter /\ UNCHANGED <<engineVars, sourceVars, pathVars, compactVars, stepVars, retryVars, forcedVars, historyVars, cacheVars, tailVars>>

SpecMcp == Init /\ [][NextMcp]_vars

(***************************************************************************)
(* OpenRouterProvider.chat under its @retry decorator                      *)
(***************************************************************************)
\* provider calls of one turn
MaxLlmCalls == 2

\* stop_after_attempt(3)
StopAfterAttempt == 3

\* what self.client.post does in one attempt: it raises
\* httpx.TimeoutException or another httpx.RequestError, or it returns a
\* response with a status and a body
HttpOutcomes == {"timeout", "request_error", "200", "200_bad_json", "401", "429", "503", "500"}

\* the body of chat: what one attempt returns or raises
chat_body(http) ==
    CASE http = "200"           -> "return"
      [] http = "200_bad_json"  -> "Exception"
      [] http = "timeout"       -> "LLMProviderError"
      [] http = "request_error" -> "LLMProviderError"
      [] http = "401"           -> "AuthenticationError"
      [] http = "429"           -> "RateLimitError"
      [] http = "503"           -> "ModelUnavailableError"
      [] OTHER                  -> "LLMProviderError"

\* retry_if_exception_type((httpx.TimeoutException, httpx.RequestError)):
\* none of the provider's own exception classes derives from them
retry_if_exception_type(raised) ==
    raised \in {"httpx.TimeoutException", "httpx.RequestError"}

\* one attempt of a provider call under the decorator: the body runs; a
\* result or an exception the predicate rejects leaves the call, an
\* exception it accepts is retried after the wait until the attempts are
\* used up, and then leaves as RetryError
ChatAttempt(http) ==
    /\ Len(llm_calls) < MaxLlmCalls
    /\ LET attempts == Append(llm_attempts, http)
           outcome  == chat_body(http)
       IN IF outcome # "return" /\ retry_if_exception_type(outcome)
          THEN IF Len(attempts) < StopAfterAttempt
               THEN /\ llm_attempts' = attempts
                    /\ llm_calls' = llm_calls
               ELSE /\ llm_attempts' = <<>>
                    /\ llm_calls' = Append(llm_calls, [attempts |-> attempts,
                                                       outcome |-> "RetryError"])
          ELSE /\ llm_attempts' = <<>>
               /\ llm_calls' = Append(llm_calls, [attempts |-> attempts, outcome |-> outcome])

NextRetry ==
    \E http \in HttpOutcomes :
        ChatAttempt(http)
            /\ UNCHANGED <<engineVars, sourceVars, pathVars, compactVars, stepVars, mcpVars, forcedVars, historyVars, cacheVars, tailVars>>

SpecRetry == Init /\ [][NextRetry]_vars

(***************************************************************************)
(* Properties of the turn engine                                           *)
(***************************************************************************)
Last(seq) == seq[Len(seq)]

TerminalCount(evs) == Cardinality({ i \in DOMAIN evs : evs[i].type \in TerminalTypes })

\* the request has yielded its last event and its stream is about to end
StreamEnded(p) == pc[p] = "yield_terminal"

\* the step on which request p yields the last event of its stream
EndsStream(p) == pc[p] # "yield_terminal" /\ pc'[p] = "yield_terminal"

\* C1: the event stream of a turn holds exactly one event among complete,
\* cancelled and error: never more than one, and one when the stream ends.
C1_ExactlyOneTerminal ==
    \A p \in Procs :
        /\ TerminalCount(events[p]) <= 1
        /\ StreamEnded(p) => TerminalCount(events[p]) = 1

\* C2: whenever no turn is running, every tool-call id carried by an assistant
\* message of the log is answered by exactly one tool message, placed after
\* that assistant message and before the next assistant message.
C2_ProposalsAnswered ==
    (\A p \in Procs : pc[p] = "idle") =>
        \A i \in DOMAIN messages :
            messages[i].role = "assistant" =>
                \A k \in DOMAIN messages[i].ids :
                    LET answers == { j \in DOMAIN messages :
                                        /\ messages[j].role = "tool"
                                        /\ messages[j].ids = <<messages[i].ids[k]>> }
                    IN /\ Cardinality(answers) = 1
                       /\ \A j \in answers :
                            /\ j > i
                            /\ \A a \in (i + 1)..j : messages[a].role # "assistant"

\* a turn that has been accepted and has not yet yielded a terminal event
Running(p) == pc[p] # "idle" /\ TerminalCount(events[p]) = 0

\* C3: two turns of the session never overlap: while one is running, no other
\* has appended to the log or yielded an event.
C3_TurnsSerialized ==
    \A p, q \in Procs : p # q => ~(Running(p) /\ Running(q))

\* request p yields a thinking_step on this step
YieldsStep(p) ==
    /\ Len(events'[p]) = Len(events[p]) + 1
    /\ Last(events'[p]).type = "thinking_step"

C6_FlagClearAtTerminal ==
    [][\A p \in Procs : EndsStream(p) => ~cancel_flags']_vars

\* C7: a cancelled event yielded by an Agent turn that observed the flag in
\* research stage carries stage "research".
C7_CancelledCarriesResearch ==
    [][\A p \in Procs :
          (/\ mode[p] = "agent"
           /\ stage = "research"
           /\ pc[p] # "yield_cancelled"
           /\ pc'[p] = "yield_cancelled") => Last(events'[p]).stage = "research"]_vars

StepEvents(evs) == SelectSeq(evs, LAMBDA e : e.type = "thinking_step")

\* C8: the thinking_step events of a turn carry the step numbers 1, 2, ..., N
\* in the order they are yielded.
C8_StepsDense ==
    \A p \in Procs :
        \A i \in DOMAIN StepEvents(events[p]) : StepEvents(events[p])[i].step = i

\* steps were yielded in HIL stage, the stage switched, and a step was yielded
\* in a later iteration
C8_Witness ==
    \E p \in Procs :
        \E i, j, k \in DOMAIN events[p] :
            /\ i < j /\ j < k
            /\ events[p][i].type = "thinking_step"
            /\ events[p][j].type = "stage_switch"
            /\ events[p][k].type = "thinking_step"

\* C10: when an Agent turn that was in research stage yields complete, the
\* agent is back in HIL stage.
C10_CompleteResetsStage ==
    \A p \in Procs :
        (/\ StreamEnded(p)
         /\ mode[p] = "agent"
         /\ was_research[p]
         /\ Last(events[p]).type = "complete") => stage = "hil"

\* C4: every path read, written or created by a tool that takes a path-like
\* argument lies inside the session's workspace, whatever the argument.
C4_PathsInsideWorkspace ==
    \A t \in fs_result.touched : relative_to(t, Workspace)

\* C9: the sources of a turn's response carry the indices 1, 2, ..., M in
\* order and pairwise distinct URLs.
C9_SourcesDenseDistinct ==
    response.sent =>
        /\ \A i \in DOMAIN response.sources : response.sources[i].idx = i
        /\ \A i, j \in DOMAIN response.sources :
              i # j => response.sources[i].url # response.sources[j].url

\* C11: a thinking_step yielded while the agent is in research stage is
\* preceded, in the events of the same turn, by a stage_switch event.
C11_SwitchPrecedesResearchStep ==
    [][\A p \in Procs :
          (YieldsStep(p) /\ mode[p] = "agent" /\ stage = "research")
              => \E i \in DOMAIN events[p] : events[p][i].type = "stage_switch"]_vars

\* C12: when a turn is accepted in a mode other than that of the session's
\* previous turn, the log the turn's first model call sees has the system
\* prompt of the requested mode at position 0.
C12_PromptFollowsMode ==
    [][\A p \in Procs :
          (/\ pc[p] = "idle"
           /\ pc'[p] # "idle"
           /\ prev_mode # "none"
           /\ mode'[p] # prev_mode)
              => (messages'[1].role = "system" /\ messages'[1].tag = mode'[p])]_vars

\* C13: when compact_context rewrites the log, the log it leaves is strictly
\* shorter, begins with the system messages followed by one digest user
\* message and one confirmation assistant message, and then holds the
\* messages from the K-th most recent user message onward, unchanged.
C13_CompactionShape ==
    compact_out.rewrote =>
        LET sys == Len(system_messages(compact_in))
            recent == recent_messages(compact_in, compact_out.k)
            out == compact_out.log
        IN /\ Len(out) < Len(compact_in)
           /\ Len(out) >= sys + 2 + Len(recent)
           /\ SubSeq(out, 1, sys) = system_messages(compact_in)
           /\ out[sys + 1] = Msg("user", "summary", <<>>)
           /\ out[sys + 2] = Msg("assistant", "confirmation", <<>>)
           /\ SubSeq(out, sys + 3, sys + 2 + Len(recent)) = recent

\* C14: in every mode and stage, when the prompt-token count of the last
\* model response exceeds the auto-compact threshold once the proposals of an
\* iteration have been processed, the turn invokes compaction before its next
\* model call.
C14_CompactionBeforeNextCall ==
    [][\A p \in Procs :
          (/\ pc[p] = "yield_step"
           /\ tc_idx[p] = Len(tool_calls[p])
           /\ last_prompt_tokens[p] = "over") => pc'[p] # "llm"]_vars

\* C15: when a turn has yielded its terminal event, of any kind and in either
\* mode, the workspace directory of the turn's mode does not exist.
C15_WorkspaceGoneAtTerminal ==
    \A p \in Procs : StreamEnded(p) => mode[p] \notin workspaces

\* C16: whenever no operation on the log is in progress (the session has a
\* message manager and no turn is running), messages.json holds exactly the
\* in-memory log.
C16_DiskMatchesMemory ==
    (has_mm /\ \A p \in Procs : pc[p] = "idle") => persisted = messages

\* C17: in both modes, a turn whose iterations each ended in normal tool
\* calls and that leaves the loop because the iteration bound is reached
\* yields complete with the more-iterations note as assistant_message.
C17_MaxIterationsNote ==
    [][\A p \in Procs :
          (/\ pc[p] \in {"yield_step", "compacting"}
           /\ iteration[p] = max_iterations
           /\ pc'[p] = "yield_terminal"
           /\ Last(events'[p]).type = "complete") => Last(events'[p]).text = "maxiter"]_vars

\* the built-in tools published with the model call request p is suspended in
published(p) == IF mode[p] = "chat" THEN chat_tools ELSE agent_tools

\* the sandbox tool, present when an E2B key is configured
execute_python_if_configured == IF has_e2b_key THEN {"execute_python"} ELSE {}

\* C18: at every model call of the loop the built-in tools published are
\* those of the mode and stage: web_search and start_research in Agent/HIL;
\* web_search, execute_python (with a sandbox key), file_read, file_write,
\* file_list, research_assistant, compact_context and stop_answer, without
\* start_research, in Agent/Research; web_search, execute_python (with a
\* sandbox key) and file_read in Chat.
C18_PublishedTools ==
    \A p \in Procs :
        pc[p] = "llm" =>
            published(p) =
                CASE mode[p] = "chat" ->
                       {"web_search", "file_read"} \cup execute_python_if_configured
                  [] mode[p] = "agent" /\ stage = "hil" ->
                       {"web_search", "start_research"}
                  [] OTHER ->
                       {"web_search", "file_read", "file_write", "file_list",
                        "research_assistant", "compact_context", "stop_answer"}
                           \cup execute_python_if_configured

\* a model call of an Agent turn that began in research stage, left behind by
\* an earlier turn, on a server with a sandbox key
C18_Witness ==
    \E p \in Procs :
        /\ pc[p] = "llm"
        /\ mode[p] = "agent"
        /\ stage = "research"
        /\ tno[p] = 2
        /\ iteration[p] = 1
        /\ has_e2b_key

\* C19: when clear-session has reported success, the log the first model
\* call of the next turn sees holds the system prompt and that turn's user
\* message and nothing else, whether or not the session's engine was in
\* memory when it was cleared.
C19_ClearedLogIsFresh ==
    [][\A p \in Procs :
          (cleared /\ pc[p] = "idle" /\ pc'[p] = "llm") =>
              /\ Len(messages') = 2
              /\ messages'[1].role = "system"
              /\ messages'[2] = Msg("user", "query", <<>>)]_vars

\* request p issues a tool-enabled model call on this step
CallIssued(p) == pc'[p] = "llm" /\ (pc[p] # "llm" \/ messages' # messages)

\* C20: every turn terminates.  Each tool-enabled model call of the loop
\* opens a new iteration and there are at most max_iterations of them; the
\* final-answer call is followed only by the end of the stream, so there is at
\* most one; and a turn that was accepted reaches the end of its stream, whose
\* last event is a terminal event.
C20_TurnTerminates ==
    /\ [][\A p \in Procs :
            /\ CallIssued(p) => /\ iteration'[p] = iteration[p] + 1
                                /\ iteration'[p] <= max_iterations
            /\ (pc[p] # "idle" /\ pc'[p] # "idle") => iteration'[p] >= iteration[p]
            /\ pc[p] = "final_llm" => pc'[p] \in {"final_llm", "yield_terminal"}
            /\ pc[p] = "yield_terminal" => pc'[p] \in {"yield_terminal", "idle"}
            /\ EndsStream(p) => Last(events'[p]).type \in TerminalTypes]_vars
    /\ \A p \in Procs : (pc[p] # "idle") ~> StreamEnded(p)

\* a turn that made max_iterations tool-enabled model calls, the last of
\* which proposed stop_answer, then the final-answer call, and has yielded its
\* terminal event
C20_Witness ==
    \E p \in Procs :
        /\ StreamEnded(p)
        /\ iteration[p] = max_iterations
        /\ ready[p]
        /\ Last(events[p]).type = "complete"

\* C21: no sandbox session survives the turn that created it: when no turn
\* is running, neither agent's execute_python tool holds a sandbox session.
C21_SandboxTornDown ==
    (\A p \in Procs : pc[p] = "idle") => sandbox = {}

ControlNames == {"start_research", "stop_answer"}

\* the last model response of request p carries a control proposal
HasControl(p) == \E k \in DOMAIN tool_calls[p] : tool_calls[p][k].name \in ControlNames

\* C22: when a model response in Agent mode carries a start_research or
\* stop_answer proposal, none of its proposals is executed and no
\* thinking_step is yielded for any of them.
C22_ControlProposalWins ==
    /\ [][\A p \in Procs : (mode[p] = "agent" /\ HasControl(p)) => ~YieldsStep(p)]_vars
    /\ [](\A p \in Procs : (mode[p] = "agent" /\ HasControl(p)) => pc[p] \notin {"tool", "yield_step"})

\* a turn that switched to research stage and whose response proposing
\* stop_answer and then a search took it to its final answer: no step was
\* yielded for the search
C22_Witness ==
    \E p \in Procs :
        /\ mode[p] = "agent"
        /\ StreamEnded(p)
        /\ ready[p]
        /\ tool_calls[p] = <<ToolCall("stop_answer", "obj"), ToolCall("web_search", "obj")>>
        /\ thinking_steps[p] = 0
        /\ \E i \in DOMAIN events[p] : events[p][i].type = "stage_switch"

\* C23: a stop_answer proposal received in Agent/HIL stage takes the turn to
\* the final-answer phase, and the turn does not end with an error event on
\* the step that receives it.
C23_StopAnswerInHil ==
    [][\A p \in Procs :
          (/\ pc[p] = "llm"
           /\ mode[p] = "agent"
           /\ stage = "hil"
           /\ tool_calls'[p] # tool_calls[p]
           /\ has_stop_answer(tool_calls'[p])
           /\ ~has_start_research(tool_calls'[p])) => pc'[p] = "final_llm"]_vars

\* C24: a tool-level error never ends the turn: the step on which a tool
\* call returns yields no error event, whatever the proposal's arguments
\* decode to and whether or not its tool is in the toolset.
C24_ToolErrorsStayInLoop ==
    [][\A p \in Procs :
          pc[p] = "tool" =>
              \/ events'[p] = events[p]
              \/ Last(events'[p]).type # "error"]_vars

\* the envelope of the call reports failure: the tool ran and returned a
\* structured result with success = false
EnvelopeFailed(step) ==
    /\ step.args = "obj"
    /\ step.tool \in StepTools \ {"web_search"}
    /\ step.outcome.kind = "dict"
    /\ ~step.outcome.success

\* C25: for every tool call whose result envelope reports failure, the
\* ThinkingStep of the call has success = false.
C25_StepSuccessFollowsEnvelope ==
    \A i \in DOMAIN steps : EnvelopeFailed(steps[i]) => ~steps[i].success

\* the model call of p returns a response without tool proposals in the
\* Research stage of Agent mode (a raised call appends the error text)
ResearchTextStep(p) ==
    /\ pc[p] = "llm"
    /\ mode[p] = "agent"
    /\ stage = "research"
    /\ tool_calls'[p] = <<>>
    /\ messages' # messages
    /\ Last(messages') # Msg("assistant", "error", <<>>)

\* the log after the response text and the error-correction prompt
WithErrorPrompt(msgs) ==
    add_user_message(add_assistant_message(msgs, "text", <<>>), "error_prompt")

\* C26: in the Research stage a response without tool proposals does not end
\* the turn: the step yields no complete event for the text, the
\* error-correction user message is appended, and the loop goes on to its
\* next test (the next model call, unless cancellation or the iteration limit
\* stops the loop there).
C26_ResearchTextContinues ==
    [][\A p \in Procs : ResearchTextStep(p) =>
          /\ \/ messages' = WithErrorPrompt(messages)
             \/ /\ iteration[p] = max_iterations
                /\ messages' = add_assistant_message(WithErrorPrompt(messages), "maxiter", <<>>)
          /\ \A i \in DOMAIN events'[p] :
                 (i > Len(events[p]) /\ events'[p][i].type = "complete") =>
                     (iteration[p] = max_iterations /\ events'[p][i].text = "maxiter")
          /\ (iteration[p] < max_iterations /\ ~cancel_flags) =>
                 (pc'[p] = "llm" /\ iteration'[p] = iteration[p] + 1 /\ events'[p] = events[p])]_vars

\* the loop went on to a model call behind the error-correction prompt
C26_Witness ==
    \E p \in Procs :
        /\ pc[p] = "llm"
        /\ mode[p] = "agent"
        /\ stage = "research"
        /\ Len(messages) >= 2
        /\ Last(messages) = Msg("user", "error_prompt", <<>>)
        /\ messages[Len(messages) - 1] = Msg("assistant", "text", <<>>)

\* C27: once stop_answer has been processed the loop is never re-entered: the
\* turn is at its final-answer call or at its end, no tool is executed, and no
\* thinking_step or stage_switch event is yielded, whatever the final-answer
\* call returns.
C27_NoLoopAfterStop ==
    /\ [](\A p \in Procs : ready[p] => pc[p] \in {"final_llm", "yield_terminal"})
    /\ [][\A p \in Procs : ready[p] =>
            /\ thinking_steps'[p] = thinking_steps[p] \/ pc'[p] = "idle"
            /\ \A i \in DOMAIN events'[p] :
                   i > Len(events[p]) => events'[p][i].type \notin {"thinking_step", "stage_switch"}]_vars

\* a turn that ran tools, processed stop_answer and ended on its final answer
C27_Witness ==
    \E p \in Procs :
        /\ ready[p]
        /\ StreamEnded(p)
        /\ thinking_steps[p] > 0
        /\ Last(events[p]).type = "complete"

\* C28: the stage goes from HIL to Research only in an iteration whose model
\* response contains a start_research proposal; no other step of a turn and
\* no request of the caller (a new turn, a mode switch, a stop request, a
\* cleared conversation, a restart) moves the stage to Research.
C28_ResearchOnlyByStartResearch ==
    [][(stage = "hil" /\ stage' = "research") =>
          \E p \in Procs :
              /\ pc[p] = "llm"
              /\ mode[p] = "agent"
              /\ has_start_research(tool_calls'[p])
              /\ pc'[p] = "switching"]_vars

\* a later turn of the session that is switching to Research again, after an
\* earlier turn of the session had been there and the stage had been reset
C28_Witness ==
    \E p \in Procs :
        /\ pc[p] = "switching"
        /\ stage = "research"
        /\ tno[p] > 1
        /\ has_start_research(tool_calls[p])

\* the connection to server s failed at the last stage switch
ConnectFailed(s) == mcp_outcome[s] \in {"connect_raises", "list_raises"}

\* the tool set published for the turn holds a tool of server s
PublishesToolOf(s) == \E name \in research_mcp : name[2] = s

\* C29: when the connection to an external tool server fails while the tool
\* set is built at a stage switch (a second or later switch of the session
\* included), no mcp_<server>_* tool of that server is in the tool set
\* published for the turn.
C29_NoToolsOfFailedServer ==
    \A s \in Servers : ConnectFailed(s) => ~PublishesToolOf(s)

\* the HTTP request of an attempt failed with a timeout or a network error
NetworkFailure(http) == http \in {"timeout", "request_error"}

\* C30: a provider call whose request fails with a network or timeout error
\* is retried, up to 3 attempts in total; the error reaches the loop only
\* when every attempt has failed that way.
C30_NetworkErrorsRetried ==
    \A i \in DOMAIN llm_calls :
        LET call == llm_calls[i]
        IN /\ Len(call.attempts) <= StopAfterAttempt
           /\ (call.outcome # "return" /\ NetworkFailure(Last(call.attempts))) =>
                  /\ Len(call.attempts) = StopAfterAttempt
                  /\ \A k \in DOMAIN call.attempts : NetworkFailure(call.attempts[k])

\* the forced compaction of p returns an envelope that reports failure
CompactionFails(p) ==
    /\ pc[p] = "compacting"
    /\ Len(compact_results') = Len(compact_results) + 1
    /\ ~Last(compact_results').success

\* C31: when the compaction sub-agent fails (a model call raises, or it uses
\* all its iterations without a digest), the log is left exactly as it was
\* when compaction was invoked, no error event is yielded, and the turn goes
\* on to its next model call (unless cancellation or the iteration limit
\* stops the loop there).
C31_FailedCompactionLeavesLog ==
    [][\A p \in Procs : CompactionFails(p) =>
          /\ \/ messages' = messages
             \/ /\ iteration[p] = max_iterations
                /\ messages' = add_assistant_message(messages, "maxiter", <<>>)
          /\ \A i \in DOMAIN events'[p] :
                 i > Len(events[p]) => events'[p][i].type # "error"
          /\ (iteration[p] < max_iterations /\ ~cancel_flags) =>
                 (pc'[p] = "llm" /\ events'[p] = events[p])]_vars

\* the turn is at its next model call behind a compaction that failed on a
\* log it would have rewritten
C31_Witness ==
    \E p \in Procs :
        /\ pc[p] = "llm"
        /\ compact_results # <<>>
        /\ ~Last(compact_results).success
        /\ Rewrites(messages, ForcedKeep)
        /\ Last(messages) = Msg("user", "context_usage", <<>>)

\* C32: in a Research turn whose final answer holds an HTML document, the
\* response that carries the artifact is appended to chat_history.json, and
\* the workspace with artifact.html still exists when it is appended.
C32_ArtifactSavedBeforeCleanup ==
    \A i \in DOMAIN final_answers :
        final_answers[i].html =>
            \E j \in DOMAIN chat_history :
                /\ chat_history[j].turn = final_answers[i].turn
                /\ chat_history[j].artifact
                /\ chat_history[j].workspace

\* C33: caching the results of web_search never overwrites a cache file:
\* whatever the titles of the results of a turn, every result with a body is
\* written to a path that did not exist before the write.
C33_CacheNeverOverwrites ==
    \A i \in DOMAIN cache_writes :
        cache_writes[i].path # <<>> =>
            /\ ~cache_writes[i].existed
            /\ \A j \in 1..(i - 1) : cache_writes[j].path # cache_writes[i].path

\* three results were cached whose titles differ and sanitize to one name,
\* the third behind a title that is the suffixed name of the second
C33_Witness ==
    /\ Len(cache_writes) = 3
    /\ cache_writes[1].title = <<"a">>
    /\ cache_writes[2].title = <<"a", " ", "1">>
    /\ cache_writes[3].title = <<"a", "!">>
    /\ cache_writes[3].path = <<"a", "_", "2", ".md">>

\* request p starts the first turn of an engine that was created for a
\* session whose messages.json holds a log
FirstTurnOnPersistedLog(p) ==
    /\ pc[p] = "idle"
    /\ pc'[p] # "idle"
    /\ ~has_mm
    /\ persisted # <<>>

\* C34: an engine created for a session that has a persisted messages.json
\* uses exactly the persisted sequence as its log for the next turn: the
\* turn's query is appended to it, and no second system message is added.
C34_LoadedLogIsPersisted ==
    [][\A p \in Procs : FirstTurnOnPersistedLog(p) =>
          /\ messages' = add_user_message(persisted, "query")
          /\ Len(system_messages(messages')) = Len(system_messages(persisted))]_vars

\* an Agent turn at its first model call on a log that was loaded from disk:
\* the system message is still the one the Chat turn before the restart wrote
C34_Witness ==
    \E p \in Procs :
        /\ pc[p] = "llm"
        /\ restarts > 0
        /\ tno[p] = 2
        /\ iteration[p] = 1
        /\ mode[p] = "agent"
        /\ messages[1] = Msg("system", "chat", <<>>)
        /\ Last(messages) = Msg("user", "query", <<>>)

\* C35: a stop request made while no turn of the session is running has no
\* effect on later turns.  A turn that yields cancelled in the very step in
\* which it starts has had no request made after its start, so the claim
\* requires that no turn does.
C35_StaleCancelIgnored ==
    [][\A p \in Procs :
          (pc[p] = "idle" /\ pc'[p] # "idle") =>
              (events'[p] = <<>> \/ Last(events'[p]).type # "cancelled")]_vars

\* C36: in Chat mode, for every label [n] rendered to the model in a
\* web_search result block of the turn, the sources of the turn's response
\* hold an entry with idx = n whose URL is the one rendered under that label,
\* also when the turn ran more than one web_search.
C36_LabelsResolveToSources ==
    (response.sent /\ source_mode = "chat") =>
        \A line \in rendered :
            \E i \in DOMAIN response.sources :
                /\ response.sources[i].idx = line.label
                /\ response.sources[i].url = line.url

(***************************************************************************)
(* The complete event and the chat_history.json entry of a turn            *)
(***************************************************************************)
\* tool calls of one turn
MaxTurnSteps == 2

\* where a turn that completes is answered: ChatModeAgent.chat_stream, the HIL
\* text answer of agent_stream, or the tail of agent_stream
TurnPaths == {"chat", "hil", "research"}

\* tool names of the thinking steps of a turn
TurnTools == {"web_search", "execute_python", "file_read"}

\* no complete event yet in this turn
NoResponse == [sent |-> FALSE]

\* a python bool as it is written to JSON
py_bool(b) == IF b THEN "True" ELSE "False"

\* any(...) over the steps of the turn
any_has_code(tsteps) == \E i \in DOMAIN tsteps : tsteps[i].has_code
any_web_search(tsteps) == \E i \in DOMAIN tsteps : tsteps[i].tool = "web_search"

\* `thinking_steps if thinking_steps else None`, dumped: None stands as the
\* only element where a list is expected
steps_or_none(tsteps) == IF tsteps = <<>> THEN <<None>> ELSE tsteps

\* BaseAgent._add_response_to_history: the response_entry.  thinking_steps is
\* the argument the callers pass (None for an empty list); a key that is not
\* written reads as None
add_response_to_history(rid, message, answer, sources, tsteps, m, artifact, stg) ==
    [response_id |-> rid,
     user_message |-> message,
     assistant_message |-> answer,
     thinking_steps |-> steps_or_none(tsteps),
     mode |-> m,
     used_tools |-> py_bool(Len(sources) > 0 \/ Len(tsteps) > 0),
     has_code |-> IF tsteps = <<>> THEN None ELSE py_bool(any_has_code(tsteps)),
     has_web_results |-> py_bool(Len(sources) > 0),
     artifact |-> artifact,
     stage |-> stg]

\* ChatResponse(...) of ChatModeAgent.chat_stream
chat_mode_response(rid, message, answer, sources, tsteps) ==
    [sent |-> TRUE,
     response_id |-> rid,
     user_message |-> message,
     assistant_message |-> answer,
     thinking_steps |-> steps_or_none(tsteps),
     mode |-> "chat",
     used_tools |-> py_bool(Len(tsteps) > 0),
     has_code |-> py_bool(any_has_code(tsteps)),
     has_web_results |-> py_bool(any_web_search(tsteps)),
     artifact |-> None]

\* ChatResponse(...) of the HIL text answer: mode is not passed and takes the
\* default of the model, has_code is the literal False
hil_response(rid, message, answer, sources, tsteps) ==
    [sent |-> TRUE,
     response_id |-> rid,
     user_message |-> message,
     assistant_message |-> answer,
     thinking_steps |-> steps_or_none(tsteps),
     mode |-> "chat",
     used_tools |-> py_bool(Len(tsteps) > 0),
     has_code |-> py_bool(FALSE),
     has_web_results |-> py_bool(any_web_search(tsteps)),
     artifact |-> None]

\* ChatResponse(...) at the end of agent_stream
research_response(rid, message, answer, sources, tsteps, artifact) ==
    [sent |-> TRUE,
     response_id |-> rid,
     user_message |-> message,
     assistant_message |-> answer,
     thinking_steps |-> steps_or_none(tsteps),
     mode |-> "agent",
     used_tools |-> py_bool(Len(tsteps) > 0),
     has_code |-> py_bool(any_has_code(tsteps)),
     has_web_results |-> py_bool(any_web_search(tsteps)),
     artifact |-> artifact]

\* chat_stream / agent_stream start: thinking_steps = [], current_sources = []
BeginTurn(path) ==
    /\ turn_path' = path
    /\ turn_steps' = <<>>
    /\ turn_sources' = <<>>
    /\ chat_response' = NoResponse
    /\ response_entry' = NoResponse

\* one tool call of the turn: _execute_tool and _create_thinking_step.  A
\* web_search that returns results replaces current_sources; one that fails
\* leaves them
ToolStep(tool, found) ==
    /\ chat_response = NoResponse
    /\ Len(turn_steps) < MaxTurnSteps
    /\ turn_steps' = Append(turn_steps, [tool |-> tool, has_code |-> tool = "execute_python"])
    /\ turn_sources' = (IF tool = "web_search" /\ found
                        THEN Sources(<<"u1">>) ELSE turn_sources)
    /\ UNCHANGED <<turn_path, chat_response, response_entry>>

\* the turn completes: the entry is appended, the ChatResponse is built with
\* the response_id the append returned, and complete is yielded.  In the tail
\* of agent_stream a final answer with an HTML document carries an artifact
\* and the overview as its message
Complete(html) ==
    /\ chat_response = NoResponse
    /\ turn_path = "research" \/ ~html
    /\ LET rid == "resp_1"
           artifact == IF html THEN "html_blog" ELSE None
           answer == IF html THEN "overview" ELSE "answer"
       IN  /\ response_entry' =
                add_response_to_history(rid, "query", answer, turn_sources, turn_steps,
                                        IF turn_path = "chat" THEN "chat" ELSE "agent",
                                        artifact,
                                        IF turn_path = "chat" THEN None ELSE turn_path)
           /\ chat_response' =
                CASE turn_path = "chat" ->
                        chat_mode_response(rid, "query", answer, turn_sources, turn_steps)
                  [] turn_path = "hil" ->
                        hil_response(rid, "query", answer, turn_sources, turn_steps)
                  [] OTHER ->
                        research_response(rid, "query", answer, turn_sources, turn_steps, artifact)
    /\ UNCHANGED <<turn_path, turn_steps, turn_sources>>

headVars == <<engineVars, sourceVars, pathVars, compactVars, stepVars, mcpVars, retryVars,
              forcedVars, historyVars, cacheVars>>

NextEnvelope ==
    \/ \E path \in TurnPaths : BeginTurn(path) /\ UNCHANGED <<headVars, searchVars, dedupeVars>>
    \/ \E tool \in TurnTools, found \in BOOLEAN :
           ToolStep(tool, found) /\ UNCHANGED <<headVars, searchVars, dedupeVars>>
    \/ \E html \in BOOLEAN : Complete(html) /\ UNCHANGED <<headVars, searchVars, dedupeVars>>

SpecEnvelope == Init /\ [][NextEnvelope]_vars

\* two flags agree when both are set or both are not (None and False are
\* both "not set")
same_flag(a, b) == (a = "True") <=> (b = "True")

\* C37: for every turn that emits complete, the ChatResponse of the event and
\* the entry appended to chat_history.json agree on response_id, user_message,
\* assistant_message, mode, thinking_steps, used_tools, has_code,
\* has_web_results and artifact.
C37_CompleteAgreesWithHistory ==
    chat_response.sent =>
        /\ chat_response.response_id = response_entry.response_id
        /\ chat_response.user_message = response_entry.user_message
        /\ chat_response.assistant_message = response_entry.assistant_message
        /\ chat_response.mode = response_entry.mode
        /\ chat_response.thinking_steps = response_entry.thinking_steps
        /\ same_flag(chat_response.used_tools, response_entry.used_tools)
        /\ same_flag(chat_response.has_code, response_entry.has_code)
        /\ same_flag(chat_response.has_web_results, response_entry.has_web_results)
        /\ chat_response.artifact = response_entry.artifact

\* C38: for each session engine, at any time at most one live child-process
\* connection exists per configured tool server, however many times the
\* session switches to the Research stage.
C38_OneConnectionPerServer ==
    \A s \in Servers : exit_stack[s] <= 1

(***************************************************************************)
(* SearchService: searches that share its one SearchAgent                  *)
(***************************************************************************)
\* a message, and the search whose search_stream wrote it
SearchMsg(q, role) == [owner |-> q, role |-> role]

\* self.message_manager.add_*: the manager the agent holds NOW gets the
\* messages
mm_append(lists, held, msgs) == [lists EXCEPT ![held] = @ \o msgs]

\* self.llm_provider.chat(messages=self.message_manager.get_messages(), ...)
\* of search q: the list of the manager the agent holds now is passed
llm_call(sent, q, lists, held) == sent \cup {[search |-> q, msgs |-> lists[held]]}

\* search_stream up to its first await: metadata, a new MessageManager with
\* the prompt is stored in the agent, the query is added, and the model is
\* called with a forced tool
SearchStart(q, deep) ==
    /\ search_pc[q] = "idle"
    /\ search_deep' = [search_deep EXCEPT ![q] = deep]
    /\ message_manager' = q
    /\ mm_messages' = [mm_messages EXCEPT ![q] = <<SearchMsg(q, "system"), SearchMsg(q, "user")>>]
    /\ llm_sent' = llm_call(llm_sent, q, mm_messages', q)
    /\ search_pc' = [search_pc EXCEPT ![q] = "llm1"]

\* the first model call returns: without a tool call, with arguments that do
\* not parse, or with a raise, the search ends with an error; else tool_call
\* is yielded and the tool is awaited
SearchLlmReturn(q, ok) ==
    /\ search_pc[q] \in {"llm1", "llm2"}
    /\ search_pc' = [search_pc EXCEPT ![q] =
                        IF ~ok THEN "done" ELSE IF @ = "llm1" THEN "tool1" ELSE "tool2"]
    /\ UNCHANGED <<message_manager, mm_messages, search_deep, llm_sent>>

\* the tool returns (or raises): the candidates are yielded to the caller in
\* a sources / sources_update event
SearchToolReturn(q, ok) ==
    /\ search_pc[q] \in {"tool1", "tool2"}
    /\ search_pc' = [search_pc EXCEPT ![q] =
                        IF ~ok THEN "done" ELSE IF @ = "tool1" THEN "sources" ELSE "update"]
    /\ UNCHANGED <<message_manager, mm_messages, search_deep, llm_sent>>

\* the caller has taken the sources event: the assistant message with the
\* tool calls and the tool result are added.  Standard mode starts the answer
\* stream, deep mode calls the model for the supplemental search
AfterSources(q) ==
    /\ search_pc[q] = "sources"
    /\ message_manager # None
    /\ mm_messages' = mm_append(mm_messages, message_manager,
                                <<SearchMsg(q, "assistant"), SearchMsg(q, "tool")>>)
    /\ llm_sent' = llm_call(llm_sent, q, mm_messages', message_manager)
    /\ search_pc' = [search_pc EXCEPT ![q] = IF search_deep[q] THEN "llm2" ELSE "stream"]
    /\ UNCHANGED <<message_manager, search_deep>>

\* deep mode, the caller has taken sources_update: the supplemental call, its
\* result and COMPOSE_ANSWER_PROMPT are added, and the answer stream starts
AfterSourcesUpdate(q) ==
    /\ search_pc[q] = "update"
    /\ message_manager # None
    /\ mm_messages' = mm_append(mm_messages, message_manager,
                                <<SearchMsg(q, "assistant"), SearchMsg(q, "tool"),
                                  SearchMsg(q, "user")>>)
    /\ llm_sent' = llm_call(llm_sent, q, mm_messages', message_manager)
    /\ search_pc' = [search_pc EXCEPT ![q] = "stream"]
    /\ UNCHANGED <<message_manager, search_deep>>

\* the answer stream ends: the final answer is added and complete is
\* yielded; a stream that raises ends the search with an error
SearchStreamEnd(q, ok) ==
    /\ search_pc[q] = "stream"
    /\ message_manager # None
    /\ mm_messages' = (IF ok THEN mm_append(mm_messages, message_manager,
                                            <<SearchMsg(q, "assistant")>>)
                       ELSE mm_messages)
    /\ search_pc' = [search_pc EXCEPT ![q] = "done"]
    /\ UNCHANGED <<message_manager, search_deep, llm_sent>>

NextSearch ==
    \/ \E q \in SearchIds, deep \in BOOLEAN :
           SearchStart(q, deep) /\ UNCHANGED <<headVars, envelopeVars, dedupeVars>>
    \/ \E q \in SearchIds, ok \in BOOLEAN :
           SearchLlmReturn(q, ok) /\ UNCHANGED <<headVars, envelopeVars, dedupeVars>>
    \/ \E q \in SearchIds, ok \in BOOLEAN :
           SearchToolReturn(q, ok) /\ UNCHANGED <<headVars, envelopeVars, dedupeVars>>
    \/ \E q \in SearchIds : AfterSources(q) /\ UNCHANGED <<headVars, envelopeVars, dedupeVars>>
    \/ \E q \in SearchIds : AfterSourcesUpdate(q) /\ UNCHANGED <<headVars, envelopeVars, dedupeVars>>
    \/ \E q \in SearchIds, ok \in BOOLEAN :
           SearchStreamEnd(q, ok) /\ UNCHANGED <<headVars, envelopeVars, dedupeVars>>

SpecSearch == Init /\ [][NextSearch]_vars

\* C39: two searches that run concurrently through the search service are
\* isolated: every message appended for one search is in the message list of
\* that search, and no list sent to the model for a search holds a message of
\* the other search.
C39_SearchesIsolated ==
    /\ \A q \in SearchIds : \A i \in DOMAIN mm_messages[q] : mm_messages[q][i].owner = q
    /\ \A call \in llm_sent : \A i \in DOMAIN call.msgs : call.msgs[i].owner = call.search

(***************************************************************************)
(* Deep-thinking search: the candidates of two deep_search batches         *)
(***************************************************************************)
\* _build_candidates_with_snake(max_candidates=12)
MaxCandidates == 12

\* raw results of one deep_search
MaxRaw == 3

\* the queries of one deep_search
MaxQid == 2

\* URLs of raw results; a result can come without one
RawUrls == {"", "a", "b", "c"}

\* the flat raw_results lists of _search_with_exa
RawResults == SeqsUpTo([url : RawUrls, qid : 1..MaxQid], MaxRaw)

\* groups[qid]: the results of one query, in order
bucket(raw, qid) ==
    LET of_qid(r) == r.qid = qid IN SelectSeq(raw, of_qid)

\* one pass of the for loop over the sorted qids: the k-th result of every
\* query that has one
RECURSIVE round_items(_, _, _)
round_items(raw, k, qid) ==
    IF qid > MaxQid THEN <<>>
    ELSE (IF k <= Len(bucket(raw, qid)) THEN <<bucket(raw, qid)[k]>> ELSE <<>>)
            \o round_items(raw, k, qid + 1)

\* the while loop without its cap: passes until one makes no progress
RECURSIVE interleave(_, _)
interleave(raw, k) ==
    IF round_items(raw, k, 1) = <<>> THEN <<>>
    ELSE round_items(raw, k, 1) \o interleave(raw, k + 1)

\* the snake order, cut at max_candidates
snake(raw, max) ==
    LET all == interleave(raw, 1)
    IN  SubSeq(all, 1, IF Len(all) < max THEN Len(all) ELSE max)

\* the URL pass: results without a URL or with a URL seen before are skipped
RECURSIVE unique_urls(_, _)
unique_urls(ordered, seen) ==
    IF ordered = <<>> THEN <<>>
    ELSE LET url == Head(ordered).url
         IN  IF url = "" \/ url \in seen THEN unique_urls(Tail(ordered), seen)
             ELSE <<url>> \o unique_urls(Tail(ordered), seen \cup {url})

\* DeepSearchTool._build_candidates_with_snake: snake order, URL pass, cap,
\* and idx assigned from 1
build_candidates_with_snake(raw, max) ==
    LET urls == unique_urls(snake(raw, max), {})
        n == IF Len(urls) < max THEN Len(urls) ELSE max
    IN  [i \in 1..n |-> [idx |-> i, url |-> urls[i]]]

\* a merge that appends the whole new batch
dedupe_candidates_keep_all(existing, new_batch) ==
    LET new_only == [i \in DOMAIN new_batch |->
                        [new_batch[i] EXCEPT !.idx = Len(existing) + i]]
    IN  [merged |-> existing \o new_only, new_only |-> new_only]

\* dedupe_candidates: the candidates of new_batch whose URL is not in
\* existing, re-indexed from len(existing) + 1
dedupe_candidates(existing, new_batch) ==
    LET existing_urls == { existing[i].url : i \in DOMAIN existing }
        is_new(c) == c.url \notin existing_urls
        kept == SelectSeq(new_batch, is_new)
        new_only == [i \in DOMAIN kept |-> [kept[i] EXCEPT !.idx = Len(existing) + i]]
    IN  [merged |-> existing \o new_only, new_only |-> new_only]

\* what tool.execute returns for the candidates: deep_search fails (no key,
\* an exception) with an empty list, or builds them from the raw results
DeepSearchCandidates(ok, raw) ==
    IF ok THEN build_candidates_with_snake(raw, MaxCandidates) ELSE <<>>

\* deep mode, the first deep_search returns: the first batch is yielded in a
\* sources event when it is not empty
FirstBatch(ok, raw) ==
    /\ deep_pc = "first"
    /\ first_batch_candidates' = DeepSearchCandidates(ok, raw)
    /\ delivered' = first_batch_candidates'
    /\ deep_pc' = "second"
    /\ UNCHANGED second_batch

\* the supplemental deep_search returns: the new candidates are yielded in a
\* sources_update event when there are any
SecondBatch(ok, raw) ==
    /\ deep_pc = "second"
    /\ second_batch' = DeepSearchCandidates(ok, raw)
    /\ delivered' = delivered \o dedupe_candidates(first_batch_candidates, second_batch').new_only
    /\ deep_pc' = "done"
    /\ UNCHANGED first_batch_candidates

NextDedupe ==
    \/ \E ok \in BOOLEAN, raw \in RawResults :
           FirstBatch(ok, raw) /\ UNCHANGED <<headVars, envelopeVars, searchVars>>
    \/ \E ok \in BOOLEAN, raw \in RawResults :
           SecondBatch(ok, raw) /\ UNCHANGED <<headVars, envelopeVars, searchVars>>

SpecDedupe == Init /\ [][NextDedupe]_vars

\* C40: in deep-thinking search, for any two result batches, the candidates
\* delivered to the caller (the first batch in sources, then the new ones in
\* sources_update) have pairwise distinct URLs and indices that are exactly
\* 1..n without repeats.
C40_DeliveredDistinctDense ==
    /\ \A i, j \in DOMAIN delivered :
           i # j => /\ delivered[i].url # delivered[j].url
                    /\ delivered[i].idx # delivered[j].idx
    /\ { delivered[i].idx : i \in DOMAIN delivered } = 1..Len(delivered)

\* both batches delivered: the second one repeated a URL of the first and
\* brought a new one
C40_Witness ==
    /\ deep_pc = "done"
    /\ first_batch_candidates # <<>>
    /\ \E i \in DOMAIN second_batch, j \in DOMAIN first_batch_candidates :
           second_batch[i].url = first_batch_candidates[j].url
    /\ Len(delivered) > Len(first_batch_candidates)

====
